---------------------------- MODULE Spec2Model ----------------------------
(***************************************************************************)
(* estate-flow: the service-call resilience layer (utils/service-health)   *)
(* and its caller in the listing wizard.                                   *)
(*                                                                         *)
(* Text is modelled as a sequence of fragments: each fragment is a piece   *)
(* of literal text, the string is their concatenation, and                 *)
(* String.prototype.includes is the contiguous-subsequence test.  The      *)
(* phrases the code looks for are fragment sequences, so that a phrase, a  *)
(* part of a phrase and a longer phrase are different things.              *)
(***************************************************************************)
EXTENDS Integers, Sequences, FiniteSets, TLC

VARIABLES
    \* ---- retryWithBackoff / handleGenerate
    caller,       \* "none" | "direct" | "wizard": who called retryWithBackoff
    maxRetries,   \* argument maxRetries
    baseDelay,    \* argument baseDelay
    pc,           \* "idle" | "loop" | "fetch" | "sleep" | "returned" | "thrown" | "done"
    attempt,      \* the loop variable
    requests,     \* number of fetch calls issued so far
    log,          \* status of each completed attempt, 0 for a transport failure
    lastResp,     \* the last response received (NoResp before)
    allRetryable, \* every attempt so far ended in a retryable HTTP failure
    sleeps,       \* the backoff delays slept so far
    lastError,    \* the local lastError (NoError for null)
    thrown,       \* the error the call rejected with (NoError if none)
    ui,           \* the wizard's state: isLoading, error, results, route
    \* ---- categorizeError / getErrorSeverity
    cPc,          \* "message" | "category" | "assessed"
    cSource,      \* "message": the category comes from categorizeError; "flags"
    cMessage,     \* argument errorMessage
    cName,        \* argument errorName (Undefined when omitted)
    cCategory,    \* the ErrorCategory (NoCategory before)
    cSeverity,    \* the result of getErrorSeverity ("none" before)
    cLogEntry,    \* the entry logServiceError wrote (NoLogEntry before)
    \* ---- generateFallbackContent
    fPc,          \* "input" | "done"
    fInput,       \* argument input
    fType,        \* argument type
    fResult,      \* the bundle returned (NoBundle before)
    \* ---- checkServiceHealth / ServiceStatusTracker
    hCalls,       \* per checkService call: name, pc, timer, started, outcome, result
    hStatus,      \* the tracker's map: name -> entry (NoEntry when absent)
    hClock,       \* Date.now(), in ticks
    hRead,        \* what the read operation just made returned (NoRead otherwise)
    \* ---- service-status endpoint (GET)
    sPc,          \* "off" | "idle" | "polling" | "responded"
    sResults,     \* per service: "pending" or the result's status field
    sReply,       \* the JSON body sent (NoReply before)
    \* ---- periodic health polling of the components
    polls,        \* per component: phase, isMounted, interval, cycles in flight, counts
    services,     \* the entries of ServiceHealthIndicator: name and status
    \* ---- fallback endpoint (POST)
    ePc,          \* "off" | "request" | "responded"
    eRequest,     \* the request body: how it parses and its fields
    eResponse,    \* the response: status and JSON body (NoReply before)
    \* ---- content-generation endpoint (POST)
    aPc,          \* "off" | "request" | "scraping" | "generating" | "responded"
    aRequest,     \* the request body: how it parses, url, manualText, modules
    aCalls,       \* whether scrapeWithFirecrawl / generateSocialMediaContent was called
    aResponse,    \* the response: status and JSON body (NoReply before)
    \* ---- two interleaved calls of retryWithBackoff
    pCalls,       \* per call: position, arguments, server script, requests, outcome
    pLocals,      \* per frame: the locals attempt and lastError
    \* ---- results context (ResultsProvider)
    lastOp,       \* the operation applied last ("none" before the first, "off" when unused)
    resultData,   \* the generated content, or Null
    scrapedData,  \* the listing data, or Null
    editableContent,  \* the editable copy of seven fields, or Null
    brandSettings,    \* the agent's branding
    generatedModules  \* the module names

varsRetry == <<caller, maxRetries, baseDelay, pc, attempt, requests, log,
               lastResp, allRetryable, sleeps, lastError, thrown, ui>>

varsClassify == <<cPc, cSource, cMessage, cName, cCategory, cSeverity, cLogEntry>>

varsFallback == <<fPc, fInput, fType, fResult>>

varsHealth == <<hCalls, hStatus, hClock, hRead>>

varsStatus == <<sPc, sResults, sReply>>

varsPoll == <<polls, services>>

varsPost == <<ePc, eRequest, eResponse>>

varsApi == <<aPc, aRequest, aCalls, aResponse>>

varsPair == <<pCalls, pLocals>>

varsResults == <<lastOp, resultData, scrapedData, editableContent, brandSettings, generatedModules>>

vars == <<varsRetry, varsClassify, varsFallback, varsHealth, varsStatus, varsPoll, varsPost, varsApi, varsPair, varsResults>>

notRetry == <<varsClassify, varsFallback, varsHealth, varsStatus, varsPoll, varsPost, varsApi, varsPair, varsResults>>
notClassify == <<varsRetry, varsFallback, varsHealth, varsStatus, varsPoll, varsPost, varsApi, varsPair, varsResults>>
notFallback == <<varsRetry, varsClassify, varsHealth, varsStatus, varsPoll, varsPost, varsApi, varsPair, varsResults>>
notHealth == <<varsRetry, varsClassify, varsFallback, varsStatus, varsPoll, varsPost, varsApi, varsPair, varsResults>>
notStatus == <<varsRetry, varsClassify, varsFallback, varsHealth, varsPoll, varsPost, varsApi, varsPair, varsResults>>
notPoll == <<varsRetry, varsClassify, varsFallback, varsHealth, varsStatus, varsPost, varsApi, varsPair, varsResults>>
notPost == <<varsRetry, varsClassify, varsFallback, varsHealth, varsStatus, varsPoll, varsApi, varsPair, varsResults>>
notApi == <<varsRetry, varsClassify, varsFallback, varsHealth, varsStatus, varsPoll, varsPost, varsPair, varsResults>>
notPair == <<varsRetry, varsClassify, varsFallback, varsHealth, varsStatus, varsPoll, varsPost, varsApi, varsResults>>
notResults == <<varsRetry, varsClassify, varsFallback, varsHealth, varsStatus, varsPoll, varsPost, varsApi, varsPair>>

---------------------------------------------------------------------------
(* Text *)

\* s.includes(p)
Includes(s, p) ==
    \E i \in 0..(Len(s) - Len(p)) : \A j \in 1..Len(p) : s[i + j] = p[j]

\* The value of a missing property (undefined).
Undefined == <<"undefined">>

\* x || y on a string-or-undefined x
OrElse(x, y) == IF x = Undefined \/ x = <<>> THEN y ELSE x

\* String(x || '')
StringOrEmpty(x) == OrElse(x, <<>>)

PhraseWebScraping == <<"Web scraping service ", "unavailable">>
PhraseUnableToScrape == <<"Unable to scrape">>
PhraseRealEstateBlock == <<"Real estate sites often ", "block automated access">>
PhraseBlockAutomated == <<"block automated access">>
PhraseTimeout == <<"timeout">>
PhraseUnavailable == <<"unavailable">>
PhraseNetwork == <<"network">>
PhraseServiceUnavailable == <<"Service Unavailable">>
PhraseTemporarily == <<"temporarily ", "unavailable">>
PhraseQuota == <<"quota">>
PhraseBilling == <<"billing">>
PhraseOpenAI == <<"OpenAI">>
PhraseAIService == <<"AI service">>
PhraseFetch == <<"fetch">>
PhraseMaxRetries == <<"Max retries exceeded">>

---------------------------------------------------------------------------
(* retryWithBackoff *)

\* Largest maxRetries argument explored (the smallest is -1: no attempt).
MaxRetriesArg == 3

\* The wizard's call: retryWithBackoff('/api/generate', ..., 3, 1000)
WizardMaxRetries == 3
WizardBaseDelay == 1000

Statuses == {200, 400, 429, 500, 503}

StatusStr(s) ==
    CASE s = 200 -> "200" [] s = 400 -> "400" [] s = 429 -> "429"
      [] s = 500 -> "500" [] s = 503 -> "503" [] OTHER -> "?"

\* response.ok
Ok(status) == status >= 200 /\ status <= 299

\* The /api/generate messages for an unavailable service and for a failed
\* scrape (both sent with status 503).
MsgTemporarilyUnavailable ==
    <<"x", "temporarily ", "unavailable", "x", "block automated access", "x">>
MsgScrapingUnavailable ==
    <<"Web scraping service ", "unavailable", "x",
      "Real estate sites often ", "block automated access", "x">>

\* The `error` texts a JSON error body may carry.
BodyErrors ==
    { Undefined,
      <<"x">>,
      MsgTemporarilyUnavailable,
      MsgScrapingUnavailable,
      <<"x", "timeout", "x">>,
      <<"x", "quota", "x">>,
      <<"x", "network", "x">> }

StatusTexts == { <<>>, <<"Service Unavailable">> }

\* A response: its status, whether its body parses as a JSON object, the
\* `error` property of that object, and its statusText.  A success carries a
\* payload, which the retry loop does not read.
Responses ==
    { [status |-> s, parses |-> TRUE, error |-> e, statusText |-> <<>>] :
          s \in {t \in Statuses : ~Ok(t)}, e \in BodyErrors }
    \cup
    { [status |-> s, parses |-> FALSE, error |-> Undefined, statusText |-> t] :
          s \in {t \in Statuses : ~Ok(t)}, t \in StatusTexts }
    \cup
    { [status |-> s, parses |-> TRUE, error |-> Undefined, statusText |-> <<>>] :
          s \in {t \in Statuses : Ok(t)} }

NoResp == [status |-> 0, parses |-> FALSE, error |-> Undefined, statusText |-> <<>>]

\* What fetch rejects with: a TypeError (network failure) or the DOMException
\* of the per-attempt AbortSignal.timeout(30000).
TransportErrors ==
    { [class |-> "TypeError", name |-> "TypeError", message |-> <<"x", "fetch">>],
      [class |-> "DOMException", name |-> "TimeoutError",
       message |-> <<"x", "timeout">>],
      [class |-> "DOMException", name |-> "AbortError", message |-> <<"x">>] }

NoError == [class |-> "none", name |-> "none", message |-> <<>>]

\* new Error(message)
NewError(message) == [class |-> "Error", name |-> "Error", message |-> message]

\* await response.json().catch(() => ({ error: response.statusText }))
ErrorData(resp) ==
    IF resp.parses THEN [error |-> resp.error] ELSE [error |-> resp.statusText]

RECURSIVE Pow2(_)
Pow2(n) == IF n <= 0 THEN 1 ELSE 2 * Pow2(n - 1)

\* Math.pow(2, retryCount) * baseDelay
calculateBackoffDelayLinear(retryCount, base) == (retryCount + 1) * base
calculateBackoffDelay(retryCount, base) == Pow2(retryCount) * base

isRetryableErrorNo429(resp, errorData) ==
    \/ resp.status >= 500
    \/ Includes(StringOrEmpty(errorData.error), PhraseTimeout)
    \/ Includes(StringOrEmpty(errorData.error), PhraseUnavailable)
isRetryableError(resp, errorData) ==
    \/ resp.status >= 500
    \/ resp.status = 429
    \/ Includes(StringOrEmpty(errorData.error), PhraseTimeout)
    \/ Includes(StringOrEmpty(errorData.error), PhraseUnavailable)

\* errorData.error || `Request failed with status ${response.status}`
FailureMessage(resp, errorData) ==
    OrElse(errorData.error,
           <<"Request failed with status ", StatusStr(resp.status)>>)

\* The test of the catch block: is the caught error a network error?
IsTransportFailureTypeErrorOnly(e) == e.class = "TypeError"
IsTransportFailure(e) ==
    \/ e.class = "TypeError"
    \/ e.class = "DOMException"
    \/ e.name = "AbortError"
    \/ Includes(e.message, PhraseTimeout)
    \/ Includes(e.message, PhraseNetwork)

\* The loop test: attempt <= maxRetries
LoopTest(a) == a <= maxRetries

\* The loop increment: attempt++
NextAttemptStuck(a) == a
NextAttempt(a) == a + 1

\* What the try block decides for a response at iteration a: "return",
\* "sleep" (retryable, attempts left) or "throw".
TryDecisionOkLate(a, resp) ==
    IF Ok(resp.status) /\ a < maxRetries THEN "return"
    ELSE IF a < maxRetries /\ isRetryableError(resp, ErrorData(resp)) THEN "sleep"
    ELSE "throw"
TryDecisionOf(max, a, resp) ==
    IF Ok(resp.status) THEN "return"
    ELSE IF a < max /\ isRetryableError(resp, ErrorData(resp)) THEN "sleep"
    ELSE "throw"
TryDecision(a, resp) == TryDecisionOf(maxRetries, a, resp)

\* What the catch block decides for the caught error e at iteration a:
\* "sleep" (back off and retry), "break" (leave the loop) or "next" (fall
\* out of the catch block into the next iteration).
CatchDecisionBreakEarly(a, e) ==
    IF a < maxRetries /\ e.class = "TypeError" THEN "sleep" ELSE "break"
CatchDecisionOf(max, a, e) ==
    IF a < max /\ IsTransportFailure(e) THEN "sleep"
    ELSE IF a = max THEN "break"
    ELSE "next"
CatchDecision(a, e) == CatchDecisionOf(maxRetries, a, e)

\* After the loop: throw lastError || new Error('Max retries exceeded')
FinalErrorLastOnly(last) == last
FinalErrorGeneric(last) == NewError(PhraseMaxRetries)
FinalError(last) == IF last = NoError THEN NewError(PhraseMaxRetries) ELSE last

\* The catch block.
Catch(e) ==
    LET d == CatchDecision(attempt, e) IN
    /\ lastError' = e
    /\ CASE d = "sleep" ->
              /\ pc' = "sleep"
              /\ sleeps' = Append(sleeps, calculateBackoffDelay(attempt, baseDelay))
              /\ UNCHANGED <<attempt, thrown>>
         [] d = "break" ->
              /\ pc' = "thrown"
              /\ thrown' = FinalError(e)
              /\ UNCHANGED <<attempt, sleeps>>
         [] OTHER ->
              /\ pc' = "loop"
              /\ attempt' = NextAttempt(attempt)
              /\ UNCHANGED <<sleeps, thrown>>

\* The observation kept in allRetryable: a non-success response with a status
\* of 500 or more, or 429, or an error text containing "timeout" or
\* "unavailable".
RetryableFailure(resp) ==
    /\ ~Ok(resp.status)
    /\ \/ resp.status >= 500
       \/ resp.status = 429
       \/ Includes(StringOrEmpty(ErrorData(resp).error), PhraseTimeout)
       \/ Includes(StringOrEmpty(ErrorData(resp).error), PhraseUnavailable)

InitRetry ==
    /\ caller = "none"
    /\ maxRetries = 0
    /\ baseDelay = 0
    /\ pc = "idle"
    /\ attempt = 0
    /\ requests = 0
    /\ log = <<>>
    /\ lastResp = NoResp
    /\ allRetryable = TRUE
    /\ sleeps = <<>>
    /\ lastError = NoError
    /\ thrown = NoError
    /\ ui = [isLoading |-> FALSE, error |-> "null", results |-> "none",
             route |-> "wizard"]

\* A direct call retryWithBackoff(url, options, m, 1000): lastError = null,
\* attempt = 0.
CallDirect ==
    /\ pc = "idle"
    /\ \E m \in -1..MaxRetriesArg : maxRetries' = m
    /\ caller' = "direct"
    /\ baseDelay' = 1000
    /\ pc' = "loop"
    /\ UNCHANGED <<attempt, requests, log, lastResp, allRetryable, sleeps,
                   lastError, thrown, ui>>
    /\ UNCHANGED notRetry

\* handleGenerate up to its await of retryWithBackoff.
HandleGenerate ==
    /\ pc = "idle"
    /\ caller' = "wizard"
    /\ maxRetries' = WizardMaxRetries
    /\ baseDelay' = WizardBaseDelay
    /\ ui' = [ui EXCEPT !.isLoading = TRUE, !.error = "null"]
    /\ pc' = "loop"
    /\ UNCHANGED <<attempt, requests, log, lastResp, allRetryable, sleeps,
                   lastError, thrown>>
    /\ UNCHANGED notRetry

\* The head of the for loop: issue the request of this iteration, or leave
\* the loop and throw lastError || new Error('Max retries exceeded').
LoopHead ==
    /\ pc = "loop"
    /\ IF LoopTest(attempt)
       THEN /\ pc' = "fetch"
            /\ requests' = requests + 1
            /\ thrown' = thrown
       ELSE /\ pc' = "thrown"
            /\ requests' = requests
            /\ thrown' = FinalError(lastError)
    /\ UNCHANGED <<caller, maxRetries, baseDelay, attempt, log, lastResp,
                   allRetryable, sleeps, lastError, ui>>
    /\ UNCHANGED notRetry

\* The request of the current attempt completes with a response.
FetchResponds ==
    /\ pc = "fetch"
    /\ \E resp \in Responses :
          LET d == TryDecision(attempt, resp) IN
          /\ log' = Append(log, resp.status)
          /\ lastResp' = resp
          /\ allRetryable' = (allRetryable /\ RetryableFailure(resp))
          /\ CASE d = "return" ->
                    /\ pc' = "returned"
                    /\ UNCHANGED <<attempt, sleeps, lastError, thrown>>
               [] d = "sleep" ->
                    /\ pc' = "sleep"
                    /\ sleeps' = Append(sleeps,
                                        calculateBackoffDelay(attempt, baseDelay))
                    /\ UNCHANGED <<attempt, lastError, thrown>>
               [] OTHER ->
                    Catch(NewError(FailureMessage(resp, ErrorData(resp))))
    /\ UNCHANGED <<caller, maxRetries, baseDelay, requests, ui>>
    /\ UNCHANGED notRetry

\* The request of the current attempt rejects (network failure or the
\* 30-second timeout).
FetchThrows ==
    /\ pc = "fetch"
    /\ \E e \in TransportErrors :
          /\ log' = Append(log, 0)
          /\ allRetryable' = FALSE
          /\ Catch(e)
    /\ UNCHANGED <<caller, maxRetries, baseDelay, requests, lastResp, ui>>
    /\ UNCHANGED notRetry

\* The backoff timer fires: continue, attempt++.
SleepElapses ==
    /\ pc = "sleep"
    /\ pc' = "loop"
    /\ attempt' = NextAttempt(attempt)
    /\ UNCHANGED <<caller, maxRetries, baseDelay, requests, log, lastResp,
                   allRetryable, sleeps, lastError, thrown, ui>>
    /\ UNCHANGED notRetry

(* handleGenerate (the listing wizard) *)

\* The catch block of handleGenerate, as the state it leaves: the locally
\* built fallback bundle when the message names a scraping failure or
\* exhausted retries, otherwise only an error text.
GenerateCatchUi(message) ==
    IF \/ Includes(message, PhraseWebScraping)
       \/ Includes(message, PhraseRealEstateBlock)
       \/ Includes(message, PhraseMaxRetries)
    THEN [isLoading |-> FALSE, error |-> "fallbackNotice",
          results |-> "fallback", route |-> "results"]
    ELSE IF Includes(message, PhraseTimeout)
    THEN [isLoading |-> FALSE, error |-> "timedOut",
          results |-> "none", route |-> "wizard"]
    ELSE IF Includes(message, PhraseQuota) \/ Includes(message, PhraseBilling)
    THEN [isLoading |-> FALSE, error |-> "quotaNotice",
          results |-> "none", route |-> "wizard"]
    ELSE [isLoading |-> FALSE, error |-> "message",
          results |-> "none", route |-> "wizard"]

\* retryWithBackoff resolved: read the payload, store it and go to the
\* results page; a payload that is not JSON throws into the catch block.
GenerateSucceeds ==
    /\ pc = "returned"
    /\ caller = "wizard"
    /\ \E validPayload \in BOOLEAN :
          ui' = IF validPayload
                THEN [isLoading |-> FALSE, error |-> "null",
                      results |-> "ai", route |-> "results"]
                ELSE GenerateCatchUi(<<"x">>)
    /\ pc' = "done"
    /\ UNCHANGED <<caller, maxRetries, baseDelay, attempt, requests, log,
                   lastResp, allRetryable, sleeps, lastError, thrown>>
    /\ UNCHANGED notRetry

\* retryWithBackoff rejected: the catch block with the error's message.
GenerateFails ==
    /\ pc = "thrown"
    /\ caller = "wizard"
    /\ ui' = GenerateCatchUi(thrown.message)
    /\ pc' = "done"
    /\ UNCHANGED <<caller, maxRetries, baseDelay, attempt, requests, log,
                   lastResp, allRetryable, sleeps, lastError, thrown>>
    /\ UNCHANGED notRetry

NextRetry ==
    \/ CallDirect
    \/ HandleGenerate
    \/ LoopHead
    \/ FetchResponds
    \/ FetchThrows
    \/ SleepElapses
    \/ GenerateSucceeds
    \/ GenerateFails

---------------------------------------------------------------------------
(* categorizeError, getErrorSeverity *)

\* Longest message explored, in fragments.
MaxMsgLen == 2

Fragments ==
    { "Web scraping service ", "unavailable", "Unable to scrape",
      "Real estate sites often ", "block automated access", "timeout",
      "Service Unavailable", "temporarily ", "quota", "billing", "OpenAI",
      "AI service", "fetch", "x" }

Messages == UNION { [1..n -> Fragments] : n \in 0..MaxMsgLen }

NameUndefined == "undefined"

ErrorNames == { NameUndefined, "AbortError", "TypeError", "Error" }

AllCategories ==
    [ isScrapingError : BOOLEAN, isTimeoutError : BOOLEAN,
      isServiceError : BOOLEAN, isAIError : BOOLEAN, isNetworkError : BOOLEAN ]

NoCategory ==
    [ isScrapingError |-> FALSE, isTimeoutError |-> FALSE,
      isServiceError |-> FALSE, isAIError |-> FALSE, isNetworkError |-> FALSE ]

categorizeErrorNoUnable(errorMessage, errorName) ==
    [ isScrapingError |->
          \/ Includes(errorMessage, PhraseWebScraping)
          \/ Includes(errorMessage, PhraseRealEstateBlock),
      isTimeoutError |->
          Includes(errorMessage, PhraseTimeout) \/ errorName = "AbortError",
      isServiceError |->
          \/ Includes(errorMessage, PhraseServiceUnavailable)
          \/ Includes(errorMessage, PhraseTemporarily)
          \/ Includes(errorMessage, PhraseQuota)
          \/ Includes(errorMessage, PhraseBilling),
      isAIError |->
          Includes(errorMessage, PhraseOpenAI) \/ Includes(errorMessage, PhraseAIService),
      isNetworkError |->
          errorName = "TypeError" /\ Includes(errorMessage, PhraseFetch) ]
categorizeError(errorMessage, errorName) ==
    [ isScrapingError |->
          \/ Includes(errorMessage, PhraseWebScraping)
          \/ Includes(errorMessage, PhraseUnableToScrape)
          \/ Includes(errorMessage, PhraseRealEstateBlock),
      isTimeoutError |->
          Includes(errorMessage, PhraseTimeout) \/ errorName = "AbortError",
      isServiceError |->
          \/ Includes(errorMessage, PhraseServiceUnavailable)
          \/ Includes(errorMessage, PhraseTemporarily)
          \/ Includes(errorMessage, PhraseQuota)
          \/ Includes(errorMessage, PhraseBilling),
      isAIError |->
          Includes(errorMessage, PhraseOpenAI) \/ Includes(errorMessage, PhraseAIService),
      isNetworkError |->
          errorName = "TypeError" /\ Includes(errorMessage, PhraseFetch) ]

getErrorSeverityScrapingFirst(category) ==
    IF category.isScrapingError THEN "MEDIUM"
    ELSE IF category.isServiceError THEN "HIGH"
    ELSE "LOW"
getErrorSeverity(category) ==
    IF category.isServiceError THEN "HIGH"
    ELSE IF category.isScrapingError THEN "MEDIUM"
    ELSE "LOW"

\* The templates of getUserFriendlyMessage, one text each.
MessageScraping ==
    <<"The web scraping service is currently unavailable. ... Please paste your property description manually below, or try again in a few minutes.">>
MessageTimeout ==
    <<"The request timed out. ... Please paste your property description manually, or try a different URL.">>
MessageService ==
    <<"Service quota exceeded or temporarily unavailable. Please try again later or paste your property description manually.">>
MessageAI ==
    <<"AI service is temporarily unavailable. ... we'll generate content using our fallback system.">>
MessageNetwork ==
    <<"Network connection issue. Please check your internet connection and try again, or paste your property description manually.">>
MessageGeneric ==
    <<"AI content generation service is temporarily unavailable. Please paste your property description manually below, or try again in a few minutes.">>

getUserFriendlyMessageTimeoutFirst(category) ==
    IF category.isTimeoutError THEN MessageTimeout
    ELSE IF category.isScrapingError THEN MessageScraping
    ELSE IF category.isServiceError THEN MessageService
    ELSE IF category.isAIError THEN MessageAI
    ELSE IF category.isNetworkError THEN MessageNetwork
    ELSE MessageGeneric
getUserFriendlyMessage(category) ==
    IF category.isScrapingError THEN MessageScraping
    ELSE IF category.isTimeoutError THEN MessageTimeout
    ELSE IF category.isServiceError THEN MessageService
    ELSE IF category.isAIError THEN MessageAI
    ELSE IF category.isNetworkError THEN MessageNetwork
    ELSE MessageGeneric

\* The texts of getRetryAdvice.
AdviceScraping ==
    <<"Scraping errors are typically not retryable. Try manual input instead.">>
AdviceTimeout ==
    <<"Timeout errors may be retryable. Check your connection and try again.">>
AdviceService == <<"Service errors are often temporary. Retry in a few minutes.">>
AdviceAI ==
    <<"AI service errors may require quota check or API key verification.">>
AdviceNetwork ==
    <<"Network errors are usually retryable once connection is restored.">>
AdviceUnknown == <<"Unknown error type. Manual retry recommended.">>

getRetryAdvice(category) ==
    IF category.isScrapingError THEN AdviceScraping
    ELSE IF category.isTimeoutError THEN AdviceTimeout
    ELSE IF category.isServiceError THEN AdviceService
    ELSE IF category.isAIError THEN AdviceAI
    ELSE IF category.isNetworkError THEN AdviceNetwork
    ELSE AdviceUnknown

getErrorType(category) ==
    IF category.isScrapingError THEN "SCRAPING_ERROR"
    ELSE IF category.isTimeoutError THEN "TIMEOUT_ERROR"
    ELSE IF category.isServiceError THEN "SERVICE_ERROR"
    ELSE IF category.isAIError THEN "AI_SERVICE_ERROR"
    ELSE IF category.isNetworkError THEN "NETWORK_ERROR"
    ELSE "UNKNOWN_ERROR"

isRetryableCategoryAnyFlag(category) ==
    \/ category.isScrapingError
    \/ category.isTimeoutError
    \/ category.isServiceError
    \/ category.isAIError
    \/ category.isNetworkError
isRetryableCategory(category) ==
    \/ category.isScrapingError
    \/ category.isTimeoutError
    \/ category.isServiceError
    \/ category.isNetworkError

\* The steps getNextSteps pushes for each flag.
StepsScraping ==
    << "Try manual input instead of URL scraping",
       "Check if the website allows automated access",
       "Try again in a few minutes" >>
StepsTimeout ==
    << "Check your internet connection", "Try again with a shorter timeout",
       "Contact support if issue persists" >>
StepsService ==
    << "Check service status page", "Try again in a few minutes",
       "Use fallback content generation" >>
StepsAI ==
    << "Check AI service quota", "Verify API key configuration",
       "Contact support for quota issues" >>
StepsNetwork ==
    << "Check internet connection", "Try refreshing the page",
       "Check firewall settings" >>

\* if (flag) { steps.push(...) }
PushIf(flag, steps) == IF flag THEN steps ELSE <<>>

getNextStepsNoNetwork(category) ==
    PushIf(category.isScrapingError, StepsScraping)
    \o PushIf(category.isTimeoutError, StepsTimeout)
    \o PushIf(category.isServiceError, StepsService)
    \o PushIf(category.isAIError, StepsAI)
getNextSteps(category) ==
    PushIf(category.isScrapingError, StepsScraping)
    \o PushIf(category.isTimeoutError, StepsTimeout)
    \o PushIf(category.isServiceError, StepsService)
    \o PushIf(category.isAIError, StepsAI)
    \o PushIf(category.isNetworkError, StepsNetwork)

NoLogEntry == [ called |-> FALSE, written |-> FALSE ]

IdleClassify ==
    /\ cPc = "idle"
    /\ cSource = "none"
    /\ cMessage = <<>>
    /\ cName = NameUndefined
    /\ cCategory = NoCategory
    /\ cSeverity = "none"
    /\ cLogEntry = NoLogEntry

\* Either a message and a name to categorize, or a category given as such.
InitClassify ==
    /\ cSeverity = "none"
    /\ cLogEntry = NoLogEntry
    /\ \/ /\ cPc = "message"
          /\ cSource = "message"
          /\ cMessage \in Messages
          /\ cName \in ErrorNames
          /\ cCategory = NoCategory
       \/ /\ cPc = "category"
          /\ cSource = "flags"
          /\ cMessage = <<>>
          /\ cName = NameUndefined
          /\ cCategory \in AllCategories

Categorize ==
    /\ cPc = "message"
    /\ cCategory' = categorizeError(cMessage, cName)
    /\ cPc' = "category"
    /\ UNCHANGED <<cSource, cMessage, cName, cSeverity, cLogEntry>>
    /\ UNCHANGED notClassify

Assess ==
    /\ cPc = "category"
    /\ cSeverity' = getErrorSeverity(cCategory)
    /\ cPc' = "assessed"
    /\ UNCHANGED <<cSource, cMessage, cName, cCategory, cLogEntry>>
    /\ UNCHANGED notClassify

\* logServiceError(errorInfo, category, config): nothing when logging is
\* disabled, else the entry handed to console.error and to monitoring.
LogServiceError ==
    /\ cPc \in {"category", "assessed"}
    /\ cLogEntry = NoLogEntry
    /\ \E enableLogging \in BOOLEAN :
          cLogEntry' =
              IF ~enableLogging
              THEN [ called |-> TRUE, written |-> FALSE ]
              ELSE [ called |-> TRUE, written |-> TRUE,
                     level |-> getErrorSeverity(cCategory),
                     type |-> getErrorType(cCategory),
                     isRetryable |-> isRetryableCategory(cCategory),
                     retryAdvice |-> getRetryAdvice(cCategory),
                     userMessage |-> getUserFriendlyMessage(cCategory),
                     nextSteps |-> getNextSteps(cCategory) ]
    /\ UNCHANGED <<cPc, cSource, cMessage, cName, cCategory, cSeverity>>
    /\ UNCHANGED notClassify

NextClassify ==
    \/ Categorize
    \/ Assess
    \/ LogServiceError

---------------------------------------------------------------------------
(* generateFallbackContent *)

\* Longest enumerated input, in characters (longer inputs are listed).
MaxInputLen == 3

Chars == { "a", ",", " " }

Repeat(piece, n) == [ i \in 1..(n * Len(piece)) |-> piece[((i - 1) % Len(piece)) + 1] ]

\* All short inputs, inputs on both sides of each truncation length, and a
\* comma-separated list of more than five items.
Inputs ==
    UNION { [1..n -> Chars] : n \in 0..MaxInputLen }
    \cup { Repeat(<<"a">>, n) : n \in {100, 101, 150, 151, 200, 201, 300, 301} }
    \cup { Repeat(<<" ", "a", ",">>, 7) }

Min(a, b) == IF a < b THEN a ELSE b

\* input.substring(0, n)
Substring(input, n) == SubSeq(input, 1, Min(n, Len(input)))

\* input.substring(0, n) + (input.length > n ? '...' : '')
ExcerptFrom(input, n) ==
    SubSeq(input, n + 1, Len(input)) \o (IF Len(input) > n THEN <<".", ".", ".">> ELSE <<>>)
Excerpt(input, n) ==
    Substring(input, n) \o (IF Len(input) > n THEN <<".", ".", ".">> ELSE <<>>)

\* input.split(',')
RECURSIVE Split(_)
Split(s) ==
    IF \A i \in 1..Len(s) : s[i] # ","
    THEN <<s>>
    ELSE LET i == CHOOSE k \in 1..Len(s) :
                      s[k] = "," /\ \A j \in 1..(k - 1) : s[j] # ","
         IN  <<SubSeq(s, 1, i - 1)>> \o Split(SubSeq(s, i + 1, Len(s)))

\* feature.trim()
RECURSIVE Trim(_)
Trim(s) ==
    IF s = <<>> THEN s
    ELSE IF s[1] = " " THEN Trim(Tail(s))
    ELSE IF s[Len(s)] = " " THEN Trim(SubSeq(s, 1, Len(s) - 1))
    ELSE s

\* list.slice(0, n)
SliceAll(list, n) == list
Slice(list, n) == SubSeq(list, 1, Min(n, Len(list)))

generateFallbackContent(input, type) ==
    LET fallbackData ==
            [ property_title |-> <<"Property Listing">>,
              property_summary |-> Excerpt(input, 200),
              instagram |->
                  <<"Check out this amazing property! ">> \o Excerpt(input, 150)
                  \o <<" Don't miss this opportunity! #RealEstate #DreamHome #JustListed">>,
              linkedin |->
                  <<"Excited to share this property opportunity: ">>
                  \o Excerpt(input, 150)
                  \o <<" Contact me for more details and market insights. #RealEstate #PropertyInvestment">>,
              tiktok |->
                  <<"Hook: Check out this incredible property! Body: ">>
                  \o Excerpt(input, 100)
                  \o <<" CTA: DM me for a private showing!">>,
              mls_description |-> Excerpt(input, 300),
              email_blast |->
                  <<"Subject: New Listing Alert ... I wanted to share this exciting new listing with you! ">>
                  \o Excerpt(input, 200)
                  \o <<" This property offers exceptional value ... Best regards, [Your Name]">>,
              marketing_headline |-> <<"Stunning Property with Exceptional Features">>,
              features |-> <<"Beautiful Property", "Prime Location", "Excellent Features">> ]
    IN  IF type = "listing"
        THEN [ property_title |-> fallbackData.property_title,
               property_summary |-> fallbackData.property_summary,
               instagram |-> fallbackData.instagram,
               linkedin |-> fallbackData.linkedin,
               tiktok |-> fallbackData.tiktok,
               email_blast |-> fallbackData.email_blast,
               marketing_headline |-> fallbackData.marketing_headline,
               features |-> fallbackData.features,
               property_description |-> input,
               key_features |->
                   Slice([ i \in 1..Len(Split(input)) |-> Trim(Split(input)[i]) ], 5),
               neighborhood_highlights |->
                   <<"Great Location", "Excellent Schools", "Easy Access">>,
               mls_description |-> input ]
        ELSE fallbackData

NoBundle == [ none |-> TRUE ]

IdleFallback ==
    /\ fPc = "idle"
    /\ fInput = <<>>
    /\ fType = "social"
    /\ fResult = NoBundle

InitFallback ==
    /\ fPc = "input"
    /\ fInput \in Inputs
    /\ fType \in {"social", "listing"}
    /\ fResult = NoBundle

GenerateFallback ==
    /\ fPc = "input"
    /\ fResult' = generateFallbackContent(fInput, fType)
    /\ fPc' = "done"
    /\ UNCHANGED <<fInput, fType>>
    /\ UNCHANGED notFallback

NextFallback == GenerateFallback

---------------------------------------------------------------------------
(* checkServiceHealth, ServiceStatusTracker.checkService *)

\* Number of checkService calls that may overlap.
MaxCalls == 2

Calls == 1..MaxCalls

ServiceNames == { "api", "ai" }

ProbeStatuses == { 200, 204, 404, 503 }

\* Outcomes of a probe other than a status.
OutcomeNone == 0
OutcomeTimeout == -1
OutcomeThrow == -2

NoCall ==
    [ name |-> "none", pc |-> "idle", timer |-> "none", started |-> 0,
      finished |-> 0, outcome |-> OutcomeNone, result |-> FALSE ]

NoEntry == [ isHealthy |-> FALSE, lastChecked |-> -1, responseTime |-> -1 ]

\* return response.ok
ProbeResultAnyResponse(status) == TRUE
ProbeResult(status) == Ok(status)

NoRead == [ op |-> "none", value |-> <<>> ]

\* this.status.set(name, entry): the key written and the entry stored.
EntryKeyFixed(name) == "api"
EntryKey(name) == name

StatusSetKeepFirst(old, entry) == IF old = NoEntry THEN entry ELSE old
StatusSet(old, entry) == entry

\* The names that have an entry (the map's keys).
Present == { n \in ServiceNames : hStatus[n] # NoEntry }

IdleHealth ==
    /\ hCalls = [ c \in {} |-> NoCall ]
    /\ hStatus = [ n \in {} |-> NoEntry ]
    /\ hClock = 0
    /\ hRead = NoRead

InitHealth ==
    /\ hCalls = [ c \in Calls |-> NoCall ]
    /\ hStatus = [ n \in ServiceNames |-> NoEntry ]
    /\ hClock = 0
    /\ hRead = NoRead

\* checkService(name, ...) up to the await of fetch inside checkServiceHealth:
\* startTime is read, the abort timer is set, the HEAD request is issued.
\* Calls are numbered in the order they are made.
CheckService ==
    /\ \E c \in Calls, n \in ServiceNames :
          /\ hCalls[c].pc = "idle"
          /\ \A d \in Calls : d < c => hCalls[d].pc # "idle"
          /\ hCalls' = [ hCalls EXCEPT ![c] =
                 [ name |-> n, pc |-> "probing", timer |-> "armed",
                   started |-> hClock, finished |-> 0, outcome |-> OutcomeNone,
                   result |-> FALSE ] ]
    /\ hRead' = NoRead
    /\ UNCHANGED <<hStatus, hClock>>
    /\ UNCHANGED notHealth

\* checkServiceHealth returns isHealthy to checkService, which stores the
\* entry of its name.
Complete(c, timer, outcome, isHealthy) ==
    /\ hClock' = hClock + 1
    /\ hCalls' = [ hCalls EXCEPT ![c] =
           [ @ EXCEPT !.pc = "done", !.timer = timer, !.outcome = outcome,
                      !.result = isHealthy, !.finished = hClock + 1 ] ]
    /\ hStatus' = [ hStatus EXCEPT ![EntryKey(hCalls[c].name)] =
           StatusSet(@, [ isHealthy |-> isHealthy, lastChecked |-> hClock + 1,
                          responseTime |-> (hClock + 1) - hCalls[c].started ]) ]
    /\ hRead' = NoRead

\* The probe completes with a response: clearTimeout, return response.ok.
ProbeResponds ==
    /\ \E c \in Calls, status \in ProbeStatuses :
          /\ hCalls[c].pc = "probing"
          /\ Complete(c, "cleared", status, ProbeResult(status))
    /\ UNCHANGED notHealth

\* The probe rejects with a network failure: the catch block returns false
\* (the abort timer is left running).
ProbeThrows ==
    /\ \E c \in Calls :
          /\ hCalls[c].pc = "probing"
          /\ Complete(c, hCalls[c].timer, OutcomeThrow, FALSE)
    /\ UNCHANGED notHealth

\* The abort timer fires: controller.abort().
TimerFires ==
    /\ \E c \in Calls :
          /\ hCalls[c].timer = "armed"
          /\ hCalls' = [ hCalls EXCEPT ![c] =
                 [ @ EXCEPT !.timer = "fired",
                            !.pc = IF @ = "probing" THEN "aborted" ELSE @ ] ]
          /\ hClock' = IF hCalls[c].pc = "probing" THEN hClock + 1 ELSE hClock
    /\ hRead' = NoRead
    /\ UNCHANGED hStatus
    /\ UNCHANGED notHealth

\* The aborted probe rejects with an AbortError: the catch block returns false.
ProbeAborted ==
    /\ \E c \in Calls :
          /\ hCalls[c].pc = "aborted"
          /\ Complete(c, "fired", OutcomeTimeout, FALSE)
    /\ UNCHANGED notHealth

\* A read operation returns value and touches nothing else.
Read(op, value) ==
    /\ hRead' = [ op |-> op, value |-> value ]
    /\ UNCHANGED <<hCalls, hStatus, hClock>>
    /\ UNCHANGED notHealth

\* getServiceStatus(name): this.status.get(name)
GetServiceStatus ==
    \E n \in ServiceNames :
        Read("getServiceStatus", IF n \in Present THEN <<n, hStatus[n]>> ELSE <<n>>)

\* getAllStatuses(): Object.fromEntries(this.status)
GetAllStatuses ==
    Read("getAllStatuses", [ n \in Present |-> hStatus[n] ])

\* getHealthyServices(): the names whose entry is healthy
GetHealthyServices ==
    Read("getHealthyServices", { n \in Present : hStatus[n].isHealthy })

\* getUnhealthyServices(): the names whose entry is not healthy
GetUnhealthyServices ==
    Read("getUnhealthyServices", { n \in Present : ~hStatus[n].isHealthy })

NextHealth ==
    \/ CheckService
    \/ ProbeResponds
    \/ ProbeThrows
    \/ TimerFires
    \/ ProbeAborted
    \/ GetServiceStatus
    \/ GetAllStatuses
    \/ GetHealthyServices
    \/ GetUnhealthyServices

---------------------------------------------------------------------------
(* GET of the service-status endpoint *)

\* The services array of the handler.
Services ==
    { "primary-api", "fallback-api", "health-api", "listings-api", "auth-api" }

\* What one probe can end in: a response status, or a rejected fetch.
PollOutcomes == { 200, 404, 503, OutcomeThrow }

\* The status field of one service's result.
ResultStatus(outcome) ==
    IF outcome = OutcomeThrow THEN "error"
    ELSE IF Ok(outcome) THEN "healthy" ELSE "unhealthy"

\* results.filter(r => r.status === 'healthy')
IsHealthyResultNotError(status) == status # "error"
IsHealthyResult(status) == status = "healthy"

Digit(d) == <<"0", "1", "2", "3", "4", "5", "6", "7", "8", "9">>[d + 1]

\* The decimal digits of a natural number.
RECURSIVE Digits(_)
Digits(n) == IF n < 10 THEN <<Digit(n)>> ELSE Digits(n \div 10) \o <<Digit(n % 10)>>

\* `${((num / den) * 100).toFixed(1)}%`
PercentFixed1(num, den) ==
    LET tenths == (2000 * num + den) \div (2 * den)
    IN  Digits(tenths \div 10) \o <<".", Digit(tenths % 10), "%">>

\* The system object computed from the results.
SystemHealth(results) ==
    LET healthyServices == Cardinality({ n \in DOMAIN results : IsHealthyResult(results[n]) })
        totalServices == Cardinality(DOMAIN results)
    IN  [ overall |->
              IF healthyServices = totalServices THEN "healthy"
              ELSE IF 2 * healthyServices > totalServices THEN "degraded"
              ELSE "unhealthy",
          healthyCount |-> healthyServices,
          totalCount |-> totalServices,
          uptime |-> PercentFixed1(healthyServices, totalServices) ]

NoReply == [ status |-> 0 ]

IdleStatus ==
    /\ sPc = "off"
    /\ sResults = [ n \in {} |-> "pending" ]
    /\ sReply = NoReply

InitStatus ==
    /\ sPc = "idle"
    /\ sResults = [ n \in Services |-> "pending" ]
    /\ sReply = NoReply

\* GET is called: every service's probe is started.
StatusGet ==
    /\ sPc = "idle"
    /\ sPc' = "polling"
    /\ UNCHANGED <<sResults, sReply>>
    /\ UNCHANGED notStatus

\* One probe settles: a response, or a rejection caught into an 'error' result.
StatusProbeSettles ==
    /\ sPc = "polling"
    /\ \E n \in Services, outcome \in PollOutcomes :
          /\ sResults[n] = "pending"
          /\ sResults' = [ sResults EXCEPT ![n] = ResultStatus(outcome) ]
    /\ UNCHANGED <<sPc, sReply>>
    /\ UNCHANGED notStatus

\* Promise.allSettled resolves: the results are aggregated and sent.
StatusRespond ==
    /\ sPc = "polling"
    /\ \A n \in Services : sResults[n] # "pending"
    /\ sReply' = [ status |-> 200, system |-> SystemHealth(sResults),
                    services |-> sResults ]
    /\ sPc' = "responded"
    /\ UNCHANGED sResults
    /\ UNCHANGED notStatus

NextStatus ==
    \/ StatusGet
    \/ StatusProbeSettles
    \/ StatusRespond

---------------------------------------------------------------------------
(* The polling effects of ServiceHealthIndicator, useServiceHealth and
   ServiceMonitoringDashboard *)

\* Poll cycles one component instance may start.
MaxCycles == 3

Components ==
    { "ServiceHealthIndicator", "useServiceHealth", "ServiceMonitoringDashboard" }

\* The effects that keep an isMounted flag and test it before a check.
HasMountedFlag(k) == k \in { "ServiceHealthIndicator", "useServiceHealth" }

\* phase: "unmounted" (never rendered), "mounted", "torn" (cleanup has run).
\* inFlight: check cycles started and not yet completed.
\* started, updates: cycles started, state updates made (setServices, ...).
\* lateUpdates: state updates made after the cleanup.
NoPoll ==
    [ phase |-> "unmounted", isMounted |-> FALSE, interval |-> "none",
      inFlight |-> 0, started |-> 0, updates |-> 0, lateUpdates |-> 0 ]

\* clearInterval(interval) in the effect's cleanup
CleanupIntervalKept(interval) == interval
CleanupInterval(interval) == "cleared"

\* checkServices() / checkHealth() / checkAllServices() is invoked: the
\* probes are sent.
StartCycle(r) == [ r EXCEPT !.inFlight = @ + 1, !.started = @ + 1 ]

\* The keys of SERVICE_ENDPOINTS in the order of Object.entries, and the
\* name shown for each.
EndpointKeys == <<"scraping", "ai", "main">>

serviceNamesKey(key) == key
serviceNames(key) ==
    CASE key = "scraping" -> "Web Scraping"
      [] key = "ai" -> "AI Service"
      [] key = "main" -> "Main API"

\* The initial state of ServiceHealthIndicator; the AI entry is added where
\* window is defined.
InitialServices(hasWindow) ==
    <<[ name |-> "Main API", status |-> "checking" ]>>
    \o (IF hasWindow THEN <<[ name |-> "AI Service", status |-> "checking" ]>> ELSE <<>>)
    \o <<[ name |-> "Web Scraping", status |-> "checking" ]>>

\* The entries checkServices builds from the outcome of the three probes.
UpdatedServices(isHealthy) ==
    [ i \in 1..Len(EndpointKeys) |->
        [ name |-> serviceNames(EndpointKeys[i]),
          status |-> IF isHealthy[EndpointKeys[i]] THEN "healthy" ELSE "unhealthy" ] ]

IdlePoll ==
    /\ polls = [ k \in {} |-> NoPoll ]
    /\ services = <<>>

\* The components in the browser, where effects run, before their effects.
InitPoll ==
    /\ polls = [ k \in Components |-> NoPoll ]
    /\ services = InitialServices(TRUE)

\* The effect runs: the first check is made at once and the interval is set.
PollMount ==
    /\ \E k \in Components :
          /\ polls[k].phase = "unmounted"
          /\ polls' = [ polls EXCEPT ![k] =
                 StartCycle([ @ EXCEPT !.phase = "mounted", !.isMounted = TRUE,
                                       !.interval = "active" ]) ]
    /\ UNCHANGED services
    /\ UNCHANGED notPoll

\* The interval fires: performCheck / performHealthCheck test isMounted, the
\* dashboard's callback checks unconditionally.
PollTick ==
    /\ \E k \in Components :
          /\ polls[k].interval = "active"
          /\ polls[k].started < MaxCycles
          /\ polls' = [ polls EXCEPT ![k] =
                 IF HasMountedFlag(k) /\ ~@.isMounted THEN @ ELSE StartCycle(@) ]
    /\ UNCHANGED services
    /\ UNCHANGED notPoll

\* The refresh button of the mounted component is clicked.
PollRefresh ==
    /\ \E k \in Components :
          /\ polls[k].phase = "mounted"
          /\ polls[k].started < MaxCycles
          /\ polls' = [ polls EXCEPT ![k] = StartCycle(@) ]
    /\ UNCHANGED services
    /\ UNCHANGED notPoll

\* A check cycle completes: its results are put into the component's state.
PollCycleCompletes ==
    /\ \E k \in Components :
          /\ polls[k].inFlight > 0
          /\ polls' = [ polls EXCEPT ![k] =
                 [ @ EXCEPT !.inFlight = @ - 1,
                            !.updates = @ + 1,
                            !.lateUpdates =
                                IF polls[k].phase = "torn" THEN @ + 1 ELSE @ ] ]
          /\ IF k = "ServiceHealthIndicator"
             THEN \E isHealthy \in [ { EndpointKeys[i] : i \in 1..Len(EndpointKeys) } -> BOOLEAN ] :
                      services' = UpdatedServices(isHealthy)
             ELSE UNCHANGED services
    /\ UNCHANGED notPoll

\* The component is torn down: the effect's cleanup runs.
PollUnmount ==
    /\ \E k \in Components :
          /\ polls[k].phase = "mounted"
          /\ polls' = [ polls EXCEPT ![k] =
                 [ @ EXCEPT !.phase = "torn",
                            !.isMounted = FALSE,
                            !.interval = CleanupInterval(@) ] ]
    /\ UNCHANGED services
    /\ UNCHANGED notPoll

NextPoll ==
    \/ PollMount
    \/ PollTick
    \/ PollRefresh
    \/ PollCycleCompletes
    \/ PollUnmount

---------------------------------------------------------------------------
(* POST of the fallback endpoint *)

\* JSON values as the handler sees them.
Undef == [ t |-> "undefined" ]
Str(s) == [ t |-> "string", v |-> s ]
Num(n) == [ t |-> "number", n |-> n ]
Obj(address, description) ==
    [ t |-> "object", address |-> address, description |-> description ]

\* A value is truthy: if (x), !x, x && y
Truthy(x) ==
    CASE x.t = "undefined" -> FALSE
      [] x.t = "string" -> x.v # <<>>
      [] x.t = "number" -> x.n # 0
      [] OTHER -> TRUE

\* `${x}` inside a template string
ToText(x) ==
    CASE x.t = "string" -> x.v
      [] x.t = "number" -> Digits(x.n)
      [] OTHER -> <<"u", "n", "d", "e", "f", "i", "n", "e", "d">>

\* Field values of a propertyData object.
FieldValues == { Undef, Str(<<>>), Str(<<"a">>), Num(7) }

PropertyDatas ==
    { Undef, Str(<<>>), Str(<<"a", ",", "a">>) }
    \cup { Obj(a, d) : a \in FieldValues, d \in FieldValues }

InputValues == { Undef, Num(7) } \cup { Str(i) : i \in Inputs }

TypeValues == { Undef, Str(<<"social">>), Str(<<"listing">>), Str(<<"email">>) }

\* The bodies a request can carry: not JSON, the JSON null, or an object.
Requests ==
    { [ parses |-> b, input |-> Undef, type |-> Undef, propertyData |-> Undef ] :
          b \in { "invalid", "null" } }
    \cup [ parses : { "object" }, input : InputValues, type : TypeValues,
           propertyData : PropertyDatas ]

\* The text the handler takes from the body (inputText).
ExtractTextInputOnly(body) ==
    IF Truthy(body.input) /\ body.input.t = "string" THEN body.input ELSE Str(<<>>)
ExtractText(body) ==
    LET input == body.input
        propertyData == body.propertyData
    IN  IF Truthy(input) /\ input.t = "string" THEN input
        ELSE IF Truthy(propertyData)
        THEN IF propertyData.t = "string" THEN propertyData
             ELSE IF Truthy(propertyData.address) /\ Truthy(propertyData.description)
             THEN Str(ToText(propertyData.address) \o <<":", " ">>
                      \o ToText(propertyData.description))
             ELSE IF Truthy(propertyData.address) THEN propertyData.address
             ELSE IF Truthy(propertyData.description) THEN propertyData.description
             ELSE Str(<<>>)
        ELSE Str(<<>>)

\* const { type = 'social' } = body, as generateFallbackContent compares it
TypeOf(body) ==
    IF body.type.t = "undefined" THEN "social"
    ELSE IF body.type.v = <<"listing">> THEN "listing"
    ELSE IF body.type.v = <<"social">> THEN "social"
    ELSE "other"

\* The response of the handler to a request body.
FallbackResponse(body) ==
    IF body.parses # "object"
    THEN [ status |-> 500, error |-> "Fallback content generation failed" ]
    ELSE LET inputText == ExtractText(body)
         IN  IF ~Truthy(inputText)
             THEN [ status |-> 400, error |-> "Input text or property data is required" ]
             ELSE IF inputText.t # "string"
             THEN [ status |-> 500, error |-> "Fallback content generation failed" ]
             ELSE [ status |-> 200, success |-> TRUE, source |-> "fallback",
                    data |-> generateFallbackContent(inputText.v, TypeOf(body)) ]

NoRequest == [ parses |-> "none", input |-> Undef, type |-> Undef, propertyData |-> Undef ]

IdlePost ==
    /\ ePc = "off"
    /\ eRequest = NoRequest
    /\ eResponse = NoReply

InitPost ==
    /\ ePc = "request"
    /\ eRequest \in Requests
    /\ eResponse = NoReply

FallbackPost ==
    /\ ePc = "request"
    /\ eResponse' = FallbackResponse(eRequest)
    /\ ePc' = "responded"
    /\ UNCHANGED eRequest
    /\ UNCHANGED notPost

NextPost == FallbackPost

---------------------------------------------------------------------------
(* POST of the content-generation endpoint *)

\* modules: an array of names, or a single name
Arr(names) == [ t |-> "array", v |-> names ]
Single(name) == [ t |-> "single", v |-> name ]

validModules == { "social", "listing", "all" }

\* Array.isArray(modules) ? modules : [modules], with the default ['all']
requestedModules(body) ==
    IF body.modules.t = "undefined" THEN <<"all">>
    ELSE IF body.modules.t = "array" THEN body.modules.v
    ELSE <<body.modules.v>>

\* requestedModules.filter(m => !validModules.includes(m))
invalidModules(body) ==
    { requestedModules(body)[i] : i \in 1..Len(requestedModules(body)) } \ validModules

\* new URL(url) does not throw: the text starts with a scheme.
IsValidUrl(url) ==
    /\ url.t = "string"
    /\ Len(url.v) >= 2
    /\ url.v[1] \in { "https://", "http://" }

IsManualUrl(url) == url.t = "string" /\ url.v = <<"manual">>

UrlValues ==
    { Undef, Str(<<>>), Str(<<"manual">>), Str(<<"https://", "zillow.com/home/1">>),
      Str(<<"zillow.com/home/1">>), Num(7) }

ManualTextValues == { Undef, Str(<<>>), Str(<<" ", " ">>), Str(<<"a", " ">>), Num(7) }

ModulesValues ==
    { Undef, Arr(<<>>), Arr(<<"all">>), Arr(<<"listing">>), Arr(<<"social", "bogus">>),
      Single("social"), Single("bogus") }

\* The words the handler looks for in an error message, and one other word.
RouteFragments ==
    { "503", "Service Unavailable", "temporarily ", "unavailable", "429",
      "rate limit", "401", "authentication", "timeout", "quota", "billing",
      "Firecrawl", "scrape", "Open", "AI", "x" }

RouteMessages == UNION { [1..n -> RouteFragments] : n \in 0..MaxMsgLen }

\* The messages scrapeWithFirecrawl throws.
ScrapeErrors ==
    { <<"The website is taking too long to respond. Please try a different property URL or paste the description manually.">>,
      <<"This website is blocking access. Please try a different property URL or paste the description manually.">>,
      <<"The property URL could not be found. Please check the URL and try again.">>,
      <<"Network error occurred. The ", "Firecrawl", " service may be ",
        "temporarily ", "unavailable", ". Please try again or paste the description manually.">>,
      <<"Unable to ", "scrape", " the website. Please paste the property description manually.">> }

MsgNullBody == <<"Cannot destructure property 'url' of 'body' as it is null.">>
MsgTrimNotFunction == <<"manualText.trim is not a function">>

\* errorMessage.includes(p1) || errorMessage.includes(p2) || ...
HasAny(message, phrases) == \E p \in phrases : Includes(message, p)

\* The catch block: status and user message chosen from the error message.
FailureResponse(errorMessage) ==
    IF HasAny(errorMessage, { <<"503">>, PhraseServiceUnavailable, PhraseTemporarily })
    THEN [ status |-> 503, serviceStatus |-> "unavailable", error |-> MsgTemporarilyUnavailable ]
    ELSE IF HasAny(errorMessage, { <<"429">>, <<"rate limit">> })
    THEN [ status |-> 429, serviceStatus |-> "rate_limited",
           error |-> <<"Too many requests. The service is rate limited. Please try again in a few minutes.">> ]
    ELSE IF HasAny(errorMessage, { <<"401">>, <<"authentication">> })
    THEN [ status |-> 503, serviceStatus |-> "auth_failed",
           error |-> <<"Service authentication failed. Please contact support.">> ]
    ELSE IF HasAny(errorMessage, { PhraseTimeout })
    THEN [ status |-> 504, serviceStatus |-> "timeout",
           error |-> <<"Request ", "timeout", ". The website might be slow or blocking access.">> ]
    ELSE IF HasAny(errorMessage, { PhraseQuota, PhraseBilling })
    THEN [ status |-> 429, serviceStatus |-> "quota_exceeded",
           error |-> <<"Service ", "quota", " exceeded. Please try again later.">> ]
    ELSE IF HasAny(errorMessage, { <<"Firecrawl">>, <<"scrape">> })
    THEN [ status |-> 503, serviceStatus |-> "scraping_failed", error |-> MsgScrapingUnavailable ]
    ELSE IF HasAny(errorMessage, { <<"Open", "AI">>, <<"AI">> })
    THEN [ status |-> 503, serviceStatus |-> "ai_unavailable",
           error |-> <<"AI", " content generation service ", "temporarily ", "unavailable", ".">> ]
    ELSE [ status |-> 500, serviceStatus |-> "unknown", error |-> errorMessage ]

Rejection(message) == [ status |-> 400, serviceStatus |-> "none", error |-> message ]

\* NextResponse.json({ success: true, data: generatedContent, ... })
Success(generatedContent) ==
    [ status |-> 200, serviceStatus |-> "none", error |-> Undefined,
      data |-> generatedContent ]

\* The title and description of the scraped data: both fall back to a fixed
\* text when nothing can be extracted, so neither is empty.
ListingDatas ==
    [ title : { <<"Real Estate Listing">>, <<"3 Bed Home in Austin">> },
      description : { <<"Beautiful property listing">>, <<"Bright corner lot.">> } ]

\* The longest features array of a reply, and features.slice(0, 8).
MaxReplyFeatures == 9
FeatureLimit == 8

\* array.join(',')
RECURSIVE Join(_)
Join(items) ==
    IF items = <<>> THEN <<>>
    ELSE IF Len(items) = 1 THEN <<items[1]>>
    ELSE <<items[1], ",">> \o Join(Tail(items))

\* String(x): an empty array gives '', an array its items joined by commas.
StringOf(x) ==
    CASE x.t = "string" -> x.v
      [] x.t = "number" -> Digits(x.n)
      [] x.t = "array" -> Join(x.v)
      [] OTHER -> <<"undefined">>

\* The values a field of the parsed reply can hold.
JsonValues ==
    { Undef, Str(<<>>), Str(<<"text">>), Num(0), Num(7), Arr(<<>>), Arr(<<"a", "b">>) }

\* n feature texts, the second one blank.
FeatureTexts(n) ==
    [ i \in 1..n |-> IF i = 2 THEN <<" ">> ELSE <<" ", "f">> \o Digits(i) ]

FeaturesValues ==
    { Undef, Str(<<"pool">>), Arr(<<>>) }
    \cup { Arr(FeatureTexts(n)) : n \in { 3, MaxReplyFeatures, MaxReplyFeatures + 1 } }

BundleFields ==
    { "property_title", "property_summary", "instagram", "linkedin", "tiktok",
      "mls_description", "email_blast", "marketing_headline" }

FullReply ==
    [ property_title |-> Str(<<"text">>), property_summary |-> Str(<<"text">>),
      instagram |-> Str(<<"text">>), linkedin |-> Str(<<"text">>),
      tiktok |-> Str(<<"text">>), mls_description |-> Str(<<"text">>),
      email_blast |-> Str(<<"text">>), marketing_headline |-> Str(<<"text">>),
      features |-> Arr(FeatureTexts(3)) ]

\* The parsed replies: a complete one with one field, or the features, varied.
ParsedReplies ==
    { [ FullReply EXCEPT ![f] = v ] : f \in BundleFields, v \in JsonValues }
    \cup { [ FullReply EXCEPT !.features = v ] : v \in FeaturesValues }

\* What the AI call comes to: no client, a thrown error, an empty reply, a
\* reply that is not JSON, or a parsed reply.
AiErrorMessages ==
    { <<"Incorrect ", "API key", " provided">>, <<"rate limit", " reached">>,
      <<"Request ", "timeout">>, <<"insufficient_quota">>, <<"Connection error.">> }

AiOutcomes ==
    { [ kind |-> "absent" ], [ kind |-> "empty" ], [ kind |-> "notjson" ] }
    \cup { [ kind |-> "throws", message |-> m ] : m \in AiErrorMessages }
    \cup { [ kind |-> "reply", parsed |-> r ] : r \in ParsedReplies }

\* The test that the reply has every field.
IsValidReply(r) ==
    /\ \A f \in BundleFields : Truthy(r[f])
    /\ Truthy(r.features)

\* features.map(f => String(f).trim()).filter(f => f.length > 0)
RECURSIVE TrimmedNonEmpty(_)
TrimmedNonEmpty(items) ==
    IF items = <<>> THEN <<>>
    ELSE (IF Trim(items[1]) = <<>> THEN <<>> ELSE <<Trim(items[1])>>)
         \o TrimmedNonEmpty(Tail(items))

\* The bundle built from a valid reply.
ReplyContent(r) ==
    [ property_title |-> StringOf(r.property_title),
      property_summary |-> StringOf(r.property_summary),
      instagram |-> StringOf(r.instagram),
      linkedin |-> StringOf(r.linkedin),
      tiktok |-> StringOf(r.tiktok),
      mls_description |-> StringOf(r.mls_description),
      email_blast |-> StringOf(r.email_blast),
      marketing_headline |-> StringOf(r.marketing_headline),
      features |->
          Slice(IF r.features.t = "array" THEN TrimmedNonEmpty(r.features.v) ELSE <<>>,
                FeatureLimit) ]

\* The bundle returned when the AI generation fails.
ListingFallbackContent(listingData) ==
    LET title == OrElse(listingData.title, <<"Beautiful Property">>)
        description ==
            OrElse(listingData.description,
                   <<"Stunning property with excellent features and prime location.">>)
    IN  [ property_title |-> title,
          property_summary |-> description,
          instagram |->
              <<"Check out this amazing property! ">> \o listingData.title \o <<" - ">>
              \o listingData.description
              \o <<" Don't miss this opportunity! #RealEstate #DreamHome #JustListed">>,
          linkedin |->
              <<"Excited to share this property opportunity: ">> \o listingData.title
              \o <<". ">> \o listingData.description
              \o <<" Contact me for more details and market insights. #RealEstate #PropertyInvestment">>,
          tiktok |->
              <<"Hook: Check out this incredible property! Body: ">> \o listingData.title
              \o <<" - ">> \o listingData.description
              \o <<" CTA: DM me for a private showing!">>,
          mls_description |->
              title \o <<". ">> \o description
              \o <<" This property offers exceptional value and is perfect for discerning buyers seeking quality and convenience.">>,
          email_blast |->
              <<"Subject: New Listing Alert: ">> \o title
              \o <<"\n\nHi [Client Name],\n\nI wanted to share this exciting new listing with you!\n\n">>
              \o title \o <<" - ">> \o description
              \o <<"\n\nThis property offers exceptional value and is perfect for discerning buyers. Don't miss this opportunity!\n\nBest regards,\n[Your Name]">>,
          marketing_headline |-> <<"Stunning Property with Exceptional Features">>,
          features |-> << <<"Beautiful Property">>, <<"Prime Location">>, <<"Excellent Features">> >> ]

Threw(message) == [ threw |-> TRUE, message |-> message ]
Returned(content) == [ threw |-> FALSE, content |-> content ]

\* The error the try block of generateSocialMediaContent ends with, <<>> when
\* it returns.
GenerationFailure(ai) ==
    CASE ai.kind = "absent" -> <<"Open", "AI", " service ", "unavailable", " - using fallback">>
      [] ai.kind = "throws" -> ai.message
      [] ai.kind = "empty" -> <<"No response from ", "Open", "AI">>
      [] ai.kind = "notjson" -> <<"Unexpected token in JSON">>
      [] ai.kind = "reply" ->
            IF IsValidReply(ai.parsed) THEN <<>>
            ELSE <<"Invalid response format from ", "Open", "AI">>

\* generateSocialMediaContent: the AI's bundle, one of four errors, or the
\* fallback bundle.
generateSocialMediaContent(listingData, ai) ==
    LET message == GenerationFailure(ai)
    IN  IF message = <<>> THEN Returned(ReplyContent(ai.parsed))
        ELSE IF Includes(message, <<"API key">>)
        THEN Threw(<<"Open", "AI", " API key is invalid or missing. Please check your configuration.">>)
        ELSE IF Includes(message, <<"rate limit">>)
        THEN Threw(<<"Open", "AI", " ", "rate limit", " exceeded. Please try again in a few moments.">>)
        ELSE IF Includes(message, <<"timeout">>)
        THEN Threw(<<"Open", "AI", " service is taking too long to respond. Please try again.">>)
        ELSE IF Includes(message, <<"insufficient_quota">>)
        THEN Threw(<<"Open", "AI", " API ", "quota", " exceeded. Please check your account ", "billing", ".">>)
        ELSE Returned(ListingFallbackContent(listingData))


NoApiRequest ==
    [ parses |-> "none", parseError |-> <<>>, url |-> Undef, manualText |-> Undef,
      modules |-> Undef ]

\* The bodies a request can carry: not JSON (request.json() throws with some
\* message), the JSON null, or an object with url, manualText and modules.
ApiRequests ==
    { [ NoApiRequest EXCEPT !.parses = "invalid", !.parseError = m ] : m \in RouteMessages }
    \cup { [ NoApiRequest EXCEPT !.parses = "null" ] }
    \cup [ parses : { "object" }, parseError : { <<>> }, url : UrlValues,
           manualText : ManualTextValues, modules : ModulesValues ]

NoCalls == [ scrape |-> FALSE, ai |-> FALSE ]

IdleApi ==
    /\ aPc = "off"
    /\ aRequest = NoApiRequest
    /\ aCalls = NoCalls
    /\ aResponse = NoReply

InitApi ==
    /\ aPc = "request"
    /\ aRequest \in ApiRequests
    /\ aCalls = NoCalls
    /\ aResponse = NoReply

Respond(response) ==
    /\ aResponse' = response
    /\ aPc' = "responded"

\* if (manualText && manualText.trim()): the manual text is used
UsesManualText(manualText) ==
    Truthy(manualText) /\ manualText.t = "string" /\ Trim(manualText.v) # <<>>

\* POST up to its first await after the body is read: parsing, validation,
\* and the start of the scrape or, with manual text, of the generation.
ApiPost ==
    /\ aPc = "request"
    /\ LET body == aRequest
       IN  IF body.parses = "invalid"
           THEN Respond(FailureResponse(body.parseError)) /\ UNCHANGED aCalls
           ELSE IF body.parses = "null"
           THEN Respond(FailureResponse(MsgNullBody)) /\ UNCHANGED aCalls
           ELSE IF invalidModules(body) # {}
           THEN Respond(Rejection(<<"Invalid modules">>)) /\ UNCHANGED aCalls
           ELSE IF ~Truthy(body.url)
           THEN Respond(Rejection(<<"URL is required">>)) /\ UNCHANGED aCalls
           ELSE IF ~Truthy(body.manualText) /\ ~IsManualUrl(body.url)
                   /\ ~IsValidUrl(body.url)
           THEN Respond(Rejection(<<"Invalid URL format">>)) /\ UNCHANGED aCalls
           ELSE IF Truthy(body.manualText) /\ body.manualText.t # "string"
           THEN Respond(FailureResponse(MsgTrimNotFunction)) /\ UNCHANGED aCalls
           ELSE IF UsesManualText(body.manualText)
           THEN /\ aPc' = "generating"
                /\ aCalls' = [ aCalls EXCEPT !.ai = TRUE ]
                /\ UNCHANGED aResponse
           ELSE /\ aPc' = "scraping"
                /\ aCalls' = [ aCalls EXCEPT !.scrape = TRUE ]
                /\ UNCHANGED aResponse
    /\ UNCHANGED aRequest
    /\ UNCHANGED notApi

\* scrapeWithFirecrawl returns: the generation is started.
ApiScrapeReturns ==
    /\ aPc = "scraping"
    /\ aPc' = "generating"
    /\ aCalls' = [ aCalls EXCEPT !.ai = TRUE ]
    /\ UNCHANGED <<aRequest, aResponse>>
    /\ UNCHANGED notApi

\* scrapeWithFirecrawl throws: the catch block answers.
ApiScrapeThrows ==
    /\ aPc = "scraping"
    /\ \E e \in ScrapeErrors : Respond(FailureResponse(e))
    /\ UNCHANGED <<aRequest, aCalls>>
    /\ UNCHANGED notApi

\* generateSocialMediaContent returns content (the AI's or its own fallback).
ApiGenerationReturns ==
    /\ aPc = "generating"
    /\ \E listingData \in ListingDatas, ai \in AiOutcomes :
          LET result == generateSocialMediaContent(listingData, ai)
          IN  ~result.threw /\ Respond(Success(result.content))
    /\ UNCHANGED <<aRequest, aCalls>>
    /\ UNCHANGED notApi

\* generateSocialMediaContent throws: the catch block answers.
ApiGenerationThrows ==
    /\ aPc = "generating"
    /\ \E listingData \in ListingDatas, ai \in AiOutcomes :
          LET result == generateSocialMediaContent(listingData, ai)
          IN  result.threw /\ Respond(FailureResponse(result.message))
    /\ UNCHANGED <<aRequest, aCalls>>
    /\ UNCHANGED notApi

NextApi ==
    \/ ApiPost
    \/ ApiScrapeReturns
    \/ ApiScrapeThrows
    \/ ApiGenerationReturns
    \/ ApiGenerationThrows

---------------------------------------------------------------------------
(* Two interleaved calls of retryWithBackoff *)

MaxPairRetries == 1
PairIds == { 1, 2 }

\* What the server of a call answers to its n-th request: a response or a
\* rejected request.
PairOutcomes ==
    { [ kind |-> "response",
        resp |-> [status |-> 200, parses |-> TRUE, error |-> Undefined, statusText |-> <<>>] ],
      [ kind |-> "response",
        resp |-> [status |-> 503, parses |-> FALSE, error |-> Undefined,
                  statusText |-> <<"Service Unavailable">>] ],
      [ kind |-> "response",
        resp |-> [status |-> 400, parses |-> TRUE, error |-> <<"x">>, statusText |-> <<>>] ],
      [ kind |-> "reject", error |-> [class |-> "TypeError", name |-> "TypeError",
                                      message |-> <<"x", "fetch">>] ] }

\* The locals of a call (lastError, attempt) live in the call's own frame.
FrameShared(c) == 1
Frame(c) == c

NoLocals == [ attempt |-> 0, lastError |-> NoError ]

NoPairCall ==
    [ pc |-> "off", maxRetries |-> 0, script |-> <<>>, inFlight |-> 0, timers |-> 0,
      requests |-> 0, completed |-> 0, error |-> NoError ]

IdlePair ==
    /\ pCalls = [ c \in PairIds |-> NoPairCall ]
    /\ pLocals = [ c \in PairIds |-> NoLocals ]

InitPair ==
    /\ pCalls \in [ PairIds ->
                      UNION { { [ NoPairCall EXCEPT !.pc = "idle", !.maxRetries = m,
                                                     !.script = sc ] :
                                    sc \in [ 1..(m + 1) -> PairOutcomes ] } :
                              m \in 0..MaxPairRetries } ]
    /\ pLocals = [ c \in PairIds |-> NoLocals ]

Attempt(c) == pLocals[Frame(c)].attempt

\* The answer to the latest request of call c (the answers repeat when a call
\* asks more often than its script is long).
Answer(c) ==
    pCalls[c].script[((pCalls[c].requests - 1) % Len(pCalls[c].script)) + 1]

\* retryWithBackoff(url, options, maxRetries, baseDelay) is entered:
\* lastError = null, attempt = 0.
PairCall(c) ==
    /\ pCalls[c].pc = "idle"
    /\ pCalls' = [ pCalls EXCEPT ![c].pc = "loop" ]
    /\ pLocals' = [ pLocals EXCEPT ![Frame(c)] = NoLocals ]
    /\ UNCHANGED notPair

\* The head of the loop of call c.
PairLoopHead(c) ==
    /\ pCalls[c].pc = "loop"
    /\ IF Attempt(c) <= pCalls[c].maxRetries
       THEN pCalls' = [ pCalls EXCEPT ![c].pc = "fetch",
                                      ![c].requests = @ + 1,
                                      ![c].inFlight = @ + 1 ]
       ELSE pCalls' = [ pCalls EXCEPT ![c].pc = "thrown",
                                      ![c].error = FinalError(pLocals[Frame(c)].lastError) ]
    /\ UNCHANGED pLocals
    /\ UNCHANGED notPair

\* The catch block of call c.
PairCatch(c, e) ==
    LET d == CatchDecisionOf(pCalls[c].maxRetries, Attempt(c), e) IN
    CASE d = "sleep" ->
            /\ pCalls' = [ pCalls EXCEPT ![c].pc = "sleep", ![c].timers = @ + 1,
                                         ![c].inFlight = @ - 1, ![c].completed = @ + 1 ]
            /\ pLocals' = [ pLocals EXCEPT ![Frame(c)].lastError = e ]
      [] d = "break" ->
            /\ pCalls' = [ pCalls EXCEPT ![c].pc = "thrown", ![c].error = FinalError(e),
                                         ![c].inFlight = @ - 1, ![c].completed = @ + 1 ]
            /\ pLocals' = [ pLocals EXCEPT ![Frame(c)].lastError = e ]
      [] OTHER ->
            /\ pCalls' = [ pCalls EXCEPT ![c].pc = "loop",
                                         ![c].inFlight = @ - 1, ![c].completed = @ + 1 ]
            /\ pLocals' = [ pLocals EXCEPT ![Frame(c)].lastError = e,
                                           ![Frame(c)].attempt = NextAttempt(@) ]

\* The request in flight of call c completes with a response.
PairResponds(c) ==
    /\ pCalls[c].pc = "fetch"
    /\ LET o == Answer(c)
       IN  /\ o.kind = "response"
           /\ LET d == TryDecisionOf(pCalls[c].maxRetries, Attempt(c), o.resp)
              IN  CASE d = "return" ->
                          /\ pCalls' = [ pCalls EXCEPT ![c].pc = "returned",
                                                       ![c].inFlight = @ - 1,
                                                       ![c].completed = @ + 1 ]
                          /\ UNCHANGED pLocals
                    [] d = "sleep" ->
                          /\ pCalls' = [ pCalls EXCEPT ![c].pc = "sleep",
                                                       ![c].timers = @ + 1,
                                                       ![c].inFlight = @ - 1,
                                                       ![c].completed = @ + 1 ]
                          /\ UNCHANGED pLocals
                    [] OTHER ->
                          PairCatch(c, NewError(FailureMessage(o.resp, ErrorData(o.resp))))
    /\ UNCHANGED notPair

\* The request in flight of call c rejects.
PairRejects(c) ==
    /\ pCalls[c].pc = "fetch"
    /\ LET o == Answer(c)
       IN  /\ o.kind = "reject"
           /\ PairCatch(c, o.error)
    /\ UNCHANGED notPair

\* The backoff timer of call c fires: continue, attempt++.
PairSleepElapses(c) ==
    /\ pCalls[c].pc = "sleep"
    /\ pCalls' = [ pCalls EXCEPT ![c].pc = "loop", ![c].timers = @ - 1 ]
    /\ pLocals' = [ pLocals EXCEPT ![Frame(c)].attempt = NextAttempt(@) ]
    /\ UNCHANGED notPair

NextPair ==
    \E c \in PairIds :
        \/ PairCall(c)
        \/ PairLoopHead(c)
        \/ PairResponds(c)
        \/ PairRejects(c)
        \/ PairSleepElapses(c)

---------------------------------------------------------------------------
(* The results context (ResultsProvider) *)

Null == [ t |-> "null" ]

\* Generated content as setResults receives it (typed ResultData, not null).
ResultDatas ==
    { [ property_title |-> <<"t", n>>, property_summary |-> <<"s", n>>,
        instagram |-> <<"i", n>>, linkedin |-> <<"l", n>>, tiktok |-> <<"k", n>>,
        mls_description |-> <<"m", n>>, email_blast |-> <<"e", n>>,
        marketing_headline |-> <<"h", n>>, features |-> << <<"f", n>> >> ] :
      n \in { "1", "2" } }

ScrapedDatas ==
    { [ title |-> <<"New house listing">>, description |-> <<"d">>, image |-> <<>>,
        url |-> u ] : u \in { <<"wizard-generated">>, <<"wizard-generated-fallback">> } }

\* data.modules: absent, or a list of module names.
ModulesArgs == { Undef, Arr(<<>>), Arr(<<"listing">>), Arr(<<"social", "listing">>) }

Platforms ==
    { "instagram", "linkedin", "tiktok", "mls_description", "email_blast",
      "marketing_headline", "features" }

Contents == { <<"edited">> }

DefaultBrandSettings ==
    [ agentName |-> <<"Your Name">>, agentTitle |-> <<"Real Estate Agent">>,
      agentPhone |-> <<"(555) 123-4567">>, agentEmail |-> <<"your.email@realestate.com">>,
      agentPhoto |-> <<>>, brokerageName |-> <<"Your Brokerage">>, brokerageLogo |-> <<>>,
      includeHeadshot |-> TRUE, includeLogo |-> TRUE, includeContact |-> TRUE ]

\* Partial<BrandSettings>: some of the fields.
PartialSettings ==
    { [ agentName |-> <<"Ann">> ],
      [ includeLogo |-> FALSE ],
      [ agentName |-> <<"Your Name">>, includeLogo |-> TRUE ] }

\* { ...prev, ...settings }
Merge(prev, settings) ==
    [ f \in DOMAIN prev |-> IF f \in DOMAIN settings THEN settings[f] ELSE prev[f] ]

\* The editable copy setResults makes of the generated content.
EditableOf(data) ==
    [ instagram |-> data.instagram, linkedin |-> data.linkedin, tiktok |-> data.tiktok,
      mls_description |-> data.mls_description, email_blast |-> data.email_blast,
      marketing_headline |-> data.marketing_headline, features |-> data.features ]

\* prev => { if (!prev) return prev; return { ...prev, [platform]: content } }
EditedContentUnguarded(prev, platform, content) ==
    IF prev = Null THEN [ f \in { platform } |-> content ]
    ELSE [ prev EXCEPT ![platform] = content ]
EditedContent(prev, platform, content) ==
    IF prev = Null THEN prev ELSE [ prev EXCEPT ![platform] = content ]

IdleResults ==
    /\ lastOp = "off"
    /\ resultData = Null
    /\ scrapedData = Null
    /\ editableContent = Null
    /\ brandSettings = DefaultBrandSettings
    /\ generatedModules = <<>>

\* The state of a new ResultsProvider.
InitResults ==
    /\ lastOp = "none"
    /\ resultData = Null
    /\ scrapedData = Null
    /\ editableContent = Null
    /\ brandSettings = DefaultBrandSettings
    /\ generatedModules = <<>>

setResults ==
    /\ lastOp # "off"
    /\ \E data \in ResultDatas, scraped \in ScrapedDatas, modules \in ModulesArgs :
          /\ resultData' = data
          /\ scrapedData' = scraped
          /\ editableContent' = EditableOf(data)
          /\ generatedModules' = IF Truthy(modules) THEN modules.v ELSE generatedModules
    /\ lastOp' = "setResults"
    /\ UNCHANGED brandSettings
    /\ UNCHANGED notResults

updateEditableContent ==
    /\ lastOp # "off"
    /\ \E platform \in Platforms, content \in Contents :
          editableContent' = EditedContent(editableContent, platform, content)
    /\ lastOp' = "updateEditableContent"
    /\ UNCHANGED <<resultData, scrapedData, brandSettings, generatedModules>>
    /\ UNCHANGED notResults

updateBrandSettings ==
    /\ lastOp # "off"
    /\ \E settings \in PartialSettings : brandSettings' = Merge(brandSettings, settings)
    /\ lastOp' = "updateBrandSettings"
    /\ UNCHANGED <<resultData, scrapedData, editableContent, generatedModules>>
    /\ UNCHANGED notResults

updateGeneratedModules ==
    /\ lastOp # "off"
    /\ \E modules \in ModulesArgs \ { Undef } : generatedModules' = modules.v
    /\ lastOp' = "updateGeneratedModules"
    /\ UNCHANGED <<resultData, scrapedData, editableContent, brandSettings>>
    /\ UNCHANGED notResults

clearResults ==
    /\ lastOp # "off"
    /\ resultData' = Null
    /\ scrapedData' = Null
    /\ editableContent' = Null
    /\ generatedModules' = <<>>
    /\ brandSettings' = DefaultBrandSettings
    /\ lastOp' = "clearResults"
    /\ UNCHANGED notResults

NextResults ==
    \/ setResults
    \/ updateEditableContent
    \/ updateBrandSettings
    \/ updateGeneratedModules
    \/ clearResults

---------------------------------------------------------------------------
(* Specifications *)

\* The state after construction, for each part taken alone: the other parts
\* stay idle.
StartRetry == InitRetry /\ IdleClassify /\ IdleFallback /\ IdleHealth /\ IdleStatus /\ IdlePoll /\ IdlePost /\ IdleApi /\ IdlePair /\ IdleResults
StartClassify == InitRetry /\ InitClassify /\ IdleFallback /\ IdleHealth /\ IdleStatus /\ IdlePoll /\ IdlePost /\ IdleApi /\ IdlePair /\ IdleResults
StartFallback == InitRetry /\ IdleClassify /\ InitFallback /\ IdleHealth /\ IdleStatus /\ IdlePoll /\ IdlePost /\ IdleApi /\ IdlePair /\ IdleResults
StartHealth == InitRetry /\ IdleClassify /\ IdleFallback /\ InitHealth /\ IdleStatus /\ IdlePoll /\ IdlePost /\ IdleApi /\ IdlePair /\ IdleResults
StartStatus == InitRetry /\ IdleClassify /\ IdleFallback /\ IdleHealth /\ InitStatus /\ IdlePoll /\ IdlePost /\ IdleApi /\ IdlePair /\ IdleResults
StartPoll == InitRetry /\ IdleClassify /\ IdleFallback /\ IdleHealth /\ IdleStatus /\ InitPoll /\ IdlePost /\ IdleApi /\ IdlePair /\ IdleResults
StartPost == InitRetry /\ IdleClassify /\ IdleFallback /\ IdleHealth /\ IdleStatus /\ IdlePoll /\ InitPost /\ IdleApi /\ IdlePair /\ IdleResults
StartApi == InitRetry /\ IdleClassify /\ IdleFallback /\ IdleHealth /\ IdleStatus /\ IdlePoll /\ IdlePost /\ InitApi /\ IdlePair /\ IdleResults
StartPair == InitRetry /\ IdleClassify /\ IdleFallback /\ IdleHealth /\ IdleStatus /\ IdlePoll /\ IdlePost /\ IdleApi /\ InitPair /\ IdleResults
StartResults == InitRetry /\ IdleClassify /\ IdleFallback /\ IdleHealth /\ IdleStatus /\ IdlePoll /\ IdlePost /\ IdleApi /\ IdlePair /\ InitResults

SpecRetry == StartRetry /\ [][NextRetry]_vars

\* Every request completes or is aborted by its timeout, every timer fires,
\* and synchronous code runs on.
FairSpecRetry ==
    /\ SpecRetry
    /\ WF_vars(FetchResponds \/ FetchThrows)
    /\ WF_vars(SleepElapses)
    /\ WF_vars(LoopHead)

SpecClassify == StartClassify /\ [][NextClassify]_vars

SpecFallback == StartFallback /\ [][NextFallback]_vars

SpecHealth == StartHealth /\ [][NextHealth]_vars

SpecStatus == StartStatus /\ [][NextStatus]_vars

SpecPoll == StartPoll /\ [][NextPoll]_vars

SpecPost == StartPost /\ [][NextPost]_vars

SpecApi == StartApi /\ [][NextApi]_vars

SpecPair == StartPair /\ [][NextPair]_vars

SpecResults == StartResults /\ [][NextResults]_vars

---------------------------------------------------------------------------
(* Properties of retryWithBackoff and handleGenerate *)

Called == caller # "none"
Terminated == pc \in {"returned", "thrown", "done"}
Failed == thrown # NoError
LastStatus == IF log = <<>> THEN 0 ELSE log[Len(log)]

\* A response that is neither a success nor retryable: status below 500 and
\* not 429, error text without "timeout" and "unavailable".
NonRetryableFailure(resp) ==
    /\ resp.status >= 300
    /\ resp.status < 500
    /\ resp.status # 429
    /\ ~Includes(StringOrEmpty(ErrorData(resp).error), PhraseTimeout)
    /\ ~Includes(StringOrEmpty(ErrorData(resp).error), PhraseUnavailable)

\* The message of the error raised for a response: the parsed error text, or
\* "Request failed with status <code>" when the body carries none.
MessageOf(resp) ==
    IF ErrorData(resp).error \in {Undefined, <<>>}
    THEN <<"Request failed with status ", StatusStr(resp.status)>>
    ELSE ErrorData(resp).error

\* C1: for every maxRetries >= 0, one call issues at most maxRetries + 1
\* requests, whatever the responses and transport failures.
C1_AtMostMaxRetriesPlusOne ==
    (Called /\ maxRetries >= 0) => requests <= maxRetries + 1

C1_Witness ==
    /\ pc = "thrown"
    /\ maxRetries = 2
    /\ requests = 3
    /\ log = <<503, 0, 400>>

\* C2: a non-success response that is not retryable ends the call at once:
\* the call has failed with that response's message and no request follows.
C2_NonRetryableFailsImmediately ==
    (Called /\ log # <<>> /\ LastStatus # 0 /\ NonRetryableFailure(lastResp))
        => /\ pc \in {"thrown", "done"}
           /\ requests = Len(log)
           /\ thrown.message = MessageOf(lastResp)

C4_SuccessReturnsAtOnce ==
    \A i \in 1..Len(log) :
        Ok(log[i]) =>
            /\ i = Len(log)
            /\ pc \in {"returned", "done"}
            /\ ~Failed
            /\ lastResp.status = log[i]
            /\ requests = i
            /\ Len(sleeps) <= i - 1
            /\ (caller = "wizard" /\ pc = "done") => ui.results # "fallback"

C4_Witness ==
    /\ caller = "wizard"
    /\ pc = "done"
    /\ log = <<503, 503, 503, 200>>
    /\ requests = 4
    /\ sleeps = <<1000, 2000, 4000>>
    /\ ui.results = "ai"

\* C5: when retryWithBackoff has failed inside handleGenerate, the wizard
\* ends with a degradation path (the locally generated fallback content; it
\* has no manual text input), never with only an error message.
C5_FailureOffersDegradation ==
    (caller = "wizard" /\ pc = "done" /\ Failed)
        => (ui.results = "fallback" /\ ui.route = "results")

\* The ways a call ends.
ReturnedSuccess == pc \in {"returned", "done"} /\ ~Failed /\ Ok(LastStatus)
FailedExhausted ==
    /\ pc \in {"thrown", "done"} /\ Failed
    /\ requests = (IF maxRetries >= 0 THEN maxRetries + 1 ELSE 0)
    /\ Len(log) = requests
FailedNonRetryable ==
    /\ pc \in {"thrown", "done"} /\ Failed
    /\ requests < maxRetries + 1
    /\ Len(log) = requests
    /\ LastStatus # 0
    /\ NonRetryableFailure(lastResp)

\* C8: with every request completing or timing out, a call that has started
\* terminates, and a terminated call has ended in exactly one of the three
\* ways.
C8_TerminatesInOneOfThreeWays ==
    /\ (pc \in {"loop", "fetch", "sleep"}) ~> Terminated
    /\ [](Terminated =>
            /\ ReturnedSuccess \/ FailedExhausted \/ FailedNonRetryable
            /\ ~(ReturnedSuccess /\ FailedExhausted)
            /\ ~(ReturnedSuccess /\ FailedNonRetryable)
            /\ ~(FailedExhausted /\ FailedNonRetryable))

C8_Witness ==
    /\ pc = "thrown"
    /\ maxRetries = 3
    /\ log = <<400, 0, 503, 0>>

---------------------------------------------------------------------------
(* Properties of generateFallbackContent *)

\* The string fields of the bundle named by the claim.
StringFields(bundle) ==
    { bundle.property_title, bundle.property_summary, bundle.instagram,
      bundle.linkedin, bundle.tiktok, bundle.mls_description,
      bundle.email_blast, bundle.marketing_headline }

\* C6 as stated: for every input, the empty string included, and both kinds,
\* every string field of the bundle is non-empty.
C6_EveryFieldNonEmpty ==
    fPc = "done" => \A field \in StringFields(fResult) : field # <<>>

\* C6 as amended: for every non-empty input and both kinds every string
\* field is non-empty; for the empty input property_summary and
\* mls_description are empty and the other six fields are non-empty.
C6_NonEmptyInputFieldsNonEmpty ==
    fPc = "done" =>
        /\ fInput # <<>> => \A field \in StringFields(fResult) : field # <<>>
        /\ fInput = <<>> =>
              /\ fResult.property_summary = <<>>
              /\ fResult.mls_description = <<>>
              /\ \A field \in { fResult.property_title, fResult.instagram,
                                fResult.linkedin, fResult.tiktok,
                                fResult.email_blast, fResult.marketing_headline } :
                    field # <<>>

C6_Witness ==
    /\ fPc = "done"
    /\ fType = "social"
    /\ Len(fInput) = 201
    /\ Len(fResult.property_summary) = 203
    /\ Len(fResult.mls_description) = 201

---------------------------------------------------------------------------
(* Properties of checkServiceHealth *)

\* C7: checkServiceHealth returns true exactly when the probe completed with
\* a 2xx status, false after a non-success status, a timeout or a transport
\* failure, and always returns: a call is idle, waiting or done with a
\* boolean, never ended by an error.
C7_HealthIsProbeSuccess ==
    \A c \in DOMAIN hCalls :
        /\ hCalls[c].pc \in {"idle", "probing", "aborted", "done"}
        /\ hCalls[c].result \in BOOLEAN
        /\ hCalls[c].pc = "done" =>
              /\ hCalls[c].outcome \in ProbeStatuses \cup {OutcomeTimeout, OutcomeThrow}
              /\ hCalls[c].result =
                    (hCalls[c].outcome >= 200 /\ hCalls[c].outcome <= 299)
        /\ hCalls[c].pc # "done" => hCalls[c].result = FALSE

C7_Witness ==
    /\ hCalls[1].pc = "done" /\ hCalls[1].outcome = 204 /\ hCalls[1].result
    /\ hCalls[2].pc = "done" /\ hCalls[2].outcome = OutcomeTimeout
    /\ ~hCalls[2].result

---------------------------------------------------------------------------
(* Properties of categorizeError and getErrorSeverity *)

Categorized == cSource = "message" /\ cPc \in {"category", "assessed"}

\* C9 as stated: isScrapingError is true exactly for the messages containing
\* "Web scraping service unavailable", "Unable to scrape" or
\* "block automated access".
C9_ScrapingFlagShortPhrase ==
    Categorized =>
        cCategory.isScrapingError =
            ( \/ Includes(cMessage, PhraseWebScraping)
              \/ Includes(cMessage, PhraseUnableToScrape)
              \/ Includes(cMessage, PhraseBlockAutomated) )

\* C9 as amended: isScrapingError is true exactly for the messages containing
\* "Web scraping service unavailable", "Unable to scrape" or
\* "Real estate sites often block automated access".
C9_ScrapingFlagFullPhrase ==
    Categorized =>
        cCategory.isScrapingError =
            ( \/ Includes(cMessage, PhraseWebScraping)
              \/ Includes(cMessage, PhraseUnableToScrape)
              \/ Includes(cMessage, PhraseRealEstateBlock) )

C9_Witness ==
    /\ Categorized
    /\ cMessage = PhraseRealEstateBlock
    /\ cName = NameUndefined
    /\ cCategory = [NoCategory EXCEPT !.isScrapingError = TRUE]

HasServicePhrase(message) ==
    \/ Includes(message, PhraseServiceUnavailable)
    \/ Includes(message, PhraseTemporarily)
    \/ Includes(message, PhraseQuota)
    \/ Includes(message, PhraseBilling)

HasScrapingPhrase(message) ==
    \/ Includes(message, PhraseWebScraping)
    \/ Includes(message, PhraseUnableToScrape)
    \/ Includes(message, PhraseRealEstateBlock)

\* C10: the severity is HIGH when isServiceError is set (whatever
\* isScrapingError is), else MEDIUM when isScrapingError is set, else LOW;
\* a message with a service phrase and a scraping phrase gets both flags and
\* the severity HIGH.
C10_SeverityServiceFirst ==
    cPc = "assessed" =>
        /\ cCategory.isServiceError => cSeverity = "HIGH"
        /\ (~cCategory.isServiceError /\ cCategory.isScrapingError)
              => cSeverity = "MEDIUM"
        /\ (~cCategory.isServiceError /\ ~cCategory.isScrapingError)
              => cSeverity = "LOW"
        /\ (cSource = "message" /\ HasServicePhrase(cMessage)
              /\ HasScrapingPhrase(cMessage))
              => /\ cCategory.isServiceError
                 /\ cCategory.isScrapingError
                 /\ cSeverity = "HIGH"

C10_Witness ==
    /\ cPc = "assessed"
    /\ cMessage = <<"quota", "Unable to scrape">>
    /\ cCategory.isServiceError
    /\ cCategory.isScrapingError
    /\ cSeverity = "HIGH"

---------------------------------------------------------------------------
(* Properties of the recommendations in logServiceError's entry *)

Logged == cLogEntry.called /\ cLogEntry.written

\* The flags in the order the functions test them.
FlagOrder ==
    << "isScrapingError", "isTimeoutError", "isServiceError", "isAIError",
       "isNetworkError" >>

\* Position in FlagOrder of the first true flag, 0 when no flag is true.
FirstTrueFlag(category) ==
    IF \A i \in 1..5 : ~category[FlagOrder[i]] THEN 0
    ELSE CHOOSE i \in 1..5 :
             category[FlagOrder[i]] /\ \A j \in 1..(i - 1) : ~category[FlagOrder[j]]

TemplateOf(i) ==
    IF i = 0 THEN MessageGeneric
    ELSE <<MessageScraping, MessageTimeout, MessageService, MessageAI,
           MessageNetwork>>[i]

AdviceOf(i) ==
    IF i = 0 THEN AdviceUnknown
    ELSE <<AdviceScraping, AdviceTimeout, AdviceService, AdviceAI,
           AdviceNetwork>>[i]

StepsOf(i) ==
    IF i = 0 THEN <<>>
    ELSE <<StepsScraping, StepsTimeout, StepsService, StepsAI, StepsNetwork>>[i]

\* C11: for every combination of the five flags the user message is exactly
\* one template, that of the first true flag in the order scraping, timeout,
\* service, AI, network, and the generic text when no flag is true.
C11_MessageFirstMatchWins ==
    Logged =>
        /\ Len(cLogEntry.userMessage) = 1
        /\ cLogEntry.userMessage = TemplateOf(FirstTrueFlag(cCategory))

\* Logged with the scraping and timeout flags both true: the scraping text.
C11_Witness ==
    /\ Logged
    /\ cCategory.isScrapingError /\ cCategory.isTimeoutError
    /\ cLogEntry.userMessage = MessageScraping

\* C12 as stated: the next steps are only the steps of the first true flag,
\* as the retry advice is the advice of the first true flag.
C12_NextStepsFirstMatchWins ==
    Logged =>
        /\ cLogEntry.retryAdvice = AdviceOf(FirstTrueFlag(cCategory))
        /\ cLogEntry.nextSteps = StepsOf(FirstTrueFlag(cCategory))

\* Steps of every true flag, in the order of FlagOrder.
RECURSIVE StepsFrom(_, _)
StepsFrom(category, i) ==
    IF i > 5 THEN <<>>
    ELSE (IF category[FlagOrder[i]] THEN StepsOf(i) ELSE <<>>)
         \o StepsFrom(category, i + 1)

\* C12 as amended: the retry advice is the advice of the first true flag; the
\* next steps are the steps of every true flag, three per flag, concatenated
\* in the order scraping, timeout, service, AI, network.
C12_NextStepsAccumulate ==
    Logged =>
        /\ cLogEntry.retryAdvice = AdviceOf(FirstTrueFlag(cCategory))
        /\ cLogEntry.nextSteps = StepsFrom(cCategory, 1)
        /\ Len(cLogEntry.nextSteps) =
               3 * Cardinality({ i \in 1..5 : cCategory[FlagOrder[i]] })

\* Logged with the scraping and network flags true: six steps, one advice.
C12_Witness ==
    /\ Logged
    /\ cCategory.isScrapingError /\ cCategory.isNetworkError
    /\ ~cCategory.isTimeoutError /\ ~cCategory.isServiceError /\ ~cCategory.isAIError
    /\ cLogEntry.nextSteps = StepsScraping \o StepsNetwork
    /\ cLogEntry.retryAdvice = AdviceScraping

\* C13: the entry's isRetryable is true exactly when one of the scraping,
\* timeout, service and network flags is true; a category whose only true
\* flag is isAIError is not retryable.
C13_RetryableUnlessOnlyAI ==
    Logged =>
        /\ cLogEntry.isRetryable
               <=> \E i \in {1, 2, 3, 5} : cCategory[FlagOrder[i]]
        /\ FirstTrueFlag(cCategory) = 4 /\ ~cCategory.isNetworkError
               => ~cLogEntry.isRetryable

\* Logged with isAIError the only true flag: not retryable.
C13_Witness ==
    /\ Logged
    /\ cCategory = [ NoCategory EXCEPT !.isAIError = TRUE ]
    /\ ~cLogEntry.isRetryable


---------------------------------------------------------------------------
(* Properties of the listing bundle of generateFallbackContent *)

CommaPositions(s) == { k \in 1..Len(s) : s[k] = "," }

\* Position of the i-th comma of s.
NthComma(s, i) ==
    CHOOSE k \in CommaPositions(s) :
        Cardinality({ j \in CommaPositions(s) : j < k }) = i - 1

\* The i-th of the pieces the commas of s separate.
Piece(s, i) ==
    LET n == Cardinality(CommaPositions(s))
        from == IF i = 1 THEN 1 ELSE NthComma(s, i - 1) + 1
        to == IF i = n + 1 THEN Len(s) ELSE NthComma(s, i) - 1
    IN  SubSeq(s, from, to)

\* s without its leading and trailing blanks.
Trimmed(s) ==
    LET solid == { k \in 1..Len(s) : s[k] # " " }
    IN  IF solid = {} THEN <<>>
        ELSE SubSeq(s, CHOOSE k \in solid : \A j \in solid : k <= j,
                       CHOOSE k \in solid : \A j \in solid : k >= j)

\* C14: for every input, the "listing" bundle has key_features equal to the
\* first (at most) 5 comma-separated pieces of the input, each trimmed, and
\* mls_description and property_description equal to the input verbatim.
C14_ListingKeyFeatures ==
    fPc = "done" /\ fType = "listing" =>
        LET pieces == Cardinality(CommaPositions(fInput)) + 1
        IN  /\ Len(fResult.key_features) = Min(5, pieces)
            /\ Len(fResult.key_features) <= 5
            /\ \A i \in 1..Len(fResult.key_features) :
                   fResult.key_features[i] = Trimmed(Piece(fInput, i))
            /\ fResult.mls_description = fInput
            /\ fResult.property_description = fInput

\* A listing bundle of an input of more than five pieces with blanks to trim.
C14_Witness ==
    /\ fPc = "done" /\ fType = "listing"
    /\ Cardinality(CommaPositions(fInput)) > 5
    /\ fInput[1] = " "
    /\ fResult.key_features = << <<"a">>, <<"a">>, <<"a">>, <<"a">>, <<"a">> >>
    /\ fResult.mls_description = fInput


---------------------------------------------------------------------------
(* Properties of ServiceStatusTracker *)

\* Call c stores its entry in this step.
Completes(c) == hCalls[c].pc \in {"probing", "aborted"} /\ hCalls'[c].pc = "done"

ReadOps == { "getServiceStatus", "getAllStatuses", "getHealthyServices",
             "getUnhealthyServices" }

\* C15: a step changes the entry of a name only when a checkService call of
\* that name completes, and then the entry is that call's own probe result;
\* a step that completes a call of one name leaves every other name's entry
\* as it was; the four read operations leave the tracker unchanged.
C15_CheckServiceOwnEntryOnly ==
    [][ /\ \A n \in ServiceNames :
              hStatus'[n] # hStatus[n] =>
                  \E c \in Calls :
                      /\ Completes(c)
                      /\ hCalls[c].name = n
                      /\ hStatus'[n].isHealthy = hCalls'[c].result
                      /\ hStatus'[n].lastChecked = hCalls'[c].finished
        /\ \A c \in Calls :
              Completes(c) =>
                  /\ hStatus'[hCalls[c].name].isHealthy = hCalls'[c].result
                  /\ \A n \in ServiceNames \ {hCalls[c].name} :
                         hStatus'[n] = hStatus[n]
        /\ hRead'.op \in ReadOps => hStatus' = hStatus /\ hCalls' = hCalls
      ]_vars

\* Calls for the two names overlapped and both finished, with different
\* results: each name holds its own; a read has been made since.
C15_Witness ==
    /\ hCalls[1].pc = "done" /\ hCalls[2].pc = "done"
    /\ hCalls[1].name = "api" /\ hCalls[2].name = "ai"
    /\ hCalls[2].finished < hCalls[1].finished
    /\ hCalls[1].result /\ ~hCalls[2].result
    /\ hStatus["api"].isHealthy /\ hStatus["api"].lastChecked = hCalls[1].finished
    /\ ~hStatus["ai"].isHealthy /\ hStatus["ai"].lastChecked = hCalls[2].finished
    /\ hRead.op = "getHealthyServices" /\ hRead.value = {"api"}

\* The finished calls of name n.
DoneCalls(n) == { c \in Calls : hCalls[c].pc = "done" /\ hCalls[c].name = n }

\* No call of name n is still in flight.
Settled(n) == \A c \in Calls : hCalls[c].name = n => hCalls[c].pc = "done"

\* C16: once all the checkService calls of a name have finished, its entry is
\* the result of the call that completed last, whichever was started first.
C16_LastCompletionWins ==
    \A n \in ServiceNames :
        Settled(n) /\ DoneCalls(n) # {} =>
            LET last == CHOOSE c \in DoneCalls(n) :
                            \A d \in DoneCalls(n) : hCalls[d].finished <= hCalls[c].finished
            IN  /\ hStatus[n].isHealthy = hCalls[last].result
                /\ hStatus[n].lastChecked = hCalls[last].finished
                /\ hStatus[n].responseTime = hCalls[last].finished - hCalls[last].started

\* Two overlapping calls of one name: the one started first finished last
\* with an unhealthy result after the other had stored a healthy one.
C16_Witness ==
    /\ hCalls[1].pc = "done" /\ hCalls[2].pc = "done"
    /\ hCalls[1].name = "api" /\ hCalls[2].name = "api"
    /\ hCalls[1].started < hCalls[2].started
    /\ hCalls[2].started < hCalls[1].finished
    /\ hCalls[2].finished < hCalls[1].finished
    /\ hCalls[2].result /\ ~hCalls[1].result
    /\ ~hStatus["api"].isHealthy


---------------------------------------------------------------------------
(* Properties of the service-status endpoint *)

HealthyPolled == { n \in Services : sResults[n] = "healthy" }

NotHealthyPolled == { n \in Services : sResults[n] \in {"unhealthy", "error"} }

\* C17: the reply's overall health is "healthy" when all N results are
\* healthy, "degraded" when the healthy count is more than N/2 but less than
\* N, "unhealthy" otherwise, an errored probe counting as not healthy;
\* healthyCount plus the not healthy count is N = totalCount, and uptime is
\* healthyCount / totalCount as a percentage.
C17_OverallHealthClassification ==
    sPc = "responded" =>
        LET N == Cardinality(Services)
            h == Cardinality(HealthyPolled)
            system == sReply.system
        IN  /\ system.healthyCount = h
            /\ system.totalCount = N
            /\ h + Cardinality(NotHealthyPolled) = N
            /\ system.overall = "healthy" <=> h = N
            /\ system.overall = "degraded" <=> (2 * h > N /\ h < N)
            /\ system.overall = "unhealthy" <=> 2 * h <= N
            /\ system.overall \in {"healthy", "degraded", "unhealthy"}
            /\ system.uptime = Digits((100 * h) \div N) \o <<".", "0", "%">>

\* Three healthy services, one unhealthy and one errored: degraded, 60.0%.
C17_Witness ==
    /\ sPc = "responded"
    /\ Cardinality(HealthyPolled) = 3
    /\ \E n \in Services : sResults[n] = "error"
    /\ \E n \in Services : sResults[n] = "unhealthy"
    /\ sReply.system.overall = "degraded"
    /\ sReply.system.uptime = <<"6", "0", ".", "0", "%">>

---------------------------------------------------------------------------
(* Properties of the polling effects *)

\* C18: once a component's effect cleanup has run, its interval is cleared
\* and no further check cycle of that component is started.
C18_NoPollAfterTeardown ==
    [][ \A k \in Components :
            polls[k].phase = "torn" =>
                /\ polls[k].interval = "cleared"
                /\ polls'[k].started = polls[k].started
                /\ polls'[k].interval = "cleared"
      ]_vars

\* Every component was torn down after its interval had fired at least
\* once, with room left for further cycles.
C18_Witness ==
    \A k \in Components :
        /\ polls[k].phase = "torn"
        /\ polls[k].started = 2
        /\ polls[k].started < MaxCycles
        /\ polls[k].interval = "cleared"

---------------------------------------------------------------------------
(* Properties of the fallback endpoint *)

Responded == ePc = "responded"

NonEmptyString(x) == x.t = "string" /\ x.v # <<>>

CarriedText(req) ==
    LET pd == req.propertyData
    IN  IF NonEmptyString(req.input) THEN req.input
        ELSE IF pd.t = "string" THEN pd
        ELSE IF pd.t # "object" THEN Str(<<>>)
        ELSE IF Truthy(pd.address) /\ Truthy(pd.description)
        THEN Str(ToText(pd.address) \o <<":", " ">> \o ToText(pd.description))
        ELSE IF Truthy(pd.address) THEN pd.address
        ELSE IF Truthy(pd.description) THEN pd.description
        ELSE Str(<<>>)

---------------------------------------------------------------------------
(* Properties of the content-generation endpoint *)

ApiFailed == aPc = "responded" /\ aResponse.status # 200

\* The request has no url, an invalid module, or a url that is no URL.
MissingUrl(req) == ~Truthy(req.url)

InvalidModule(req) == invalidModules(req) # {}

\* The url is to be scraped (no manual text is used) and is no URL.
MalformedUrl(req) ==
    /\ Truthy(req.url) /\ ~IsValidUrl(req.url)
    /\ ~UsesManualText(req.manualText)

PassedValidation == aCalls.scrape \/ aCalls.ai

\* C20: every failure response has a status in {400, 429, 500, 503, 504}; a
\* request with a missing url, an invalid module or a malformed URL is
\* rejected with 400 before any scraping or AI call; every failure after
\* validation has status 429, 500, 503 or 504, which isRetryableError accepts.
\* (A request whose manual text is used, its url being a placeholder, is not
\* counted as one with a malformed URL.)
C20_FailureStatuses ==
    /\ ApiFailed => aResponse.status \in {400, 429, 500, 503, 504}
    /\ aRequest.parses = "object"
           /\ (MissingUrl(aRequest) \/ InvalidModule(aRequest) \/ MalformedUrl(aRequest))
           => /\ ~aCalls.scrape /\ ~aCalls.ai
              /\ aPc = "responded" => aResponse.status = 400
    /\ ApiFailed /\ PassedValidation =>
           /\ aResponse.status \in {429, 500, 503, 504}
           /\ isRetryableError(aResponse, [ error |-> aResponse.error ])

---------------------------------------------------------------------------
(* Properties of generateSocialMediaContent *)

ApiSucceeded == aPc = "responded" /\ aResponse.status = 200

\* C21: every success response of the content-generation endpoint carries a
\* fully populated bundle, whether it came from the AI reply or from the
\* fallback branch: each of the eight string fields is non-empty and features
\* holds at most 8 entries.
C21_SuccessBundlePopulated ==
    ApiSucceeded =>
        /\ \A text \in StringFields(aResponse.data) : text # <<>>
        /\ Len(aResponse.data.features) <= FeatureLimit

---------------------------------------------------------------------------
(* Further properties of retryWithBackoff *)

\* C22: when retryWithBackoff leaves its loop without having returned a
\* response and without any error having been caught (lastError is still
\* null), it fails with the generic error "Max retries exceeded".
C22_GenericErrorWhenNothingCaught ==
    (pc = "thrown" /\ lastError = NoError) => thrown = NewError(PhraseMaxRetries)

C22_Witness ==
    /\ pc = "thrown"
    /\ caller = "direct"
    /\ lastError = NoError
    /\ requests = 0
    /\ thrown = NewError(PhraseMaxRetries)

RECURSIVE Sum(_)
Sum(list) == IF list = <<>> THEN 0 ELSE Head(list) + Sum(Tail(list))

RequestRejects == pc = "fetch" /\ log' = Append(log, 0)

\* C24: when the request of attempt i rejects with a transport failure, then
\* if i < maxRetries the call sleeps 2^i * baseDelay, and when the sleep ends
\* attempt i + 1 is the next one issued; if i = maxRetries the call fails with
\* the error the request rejected with.
C24_TransportFailureRetried ==
    [][ /\ RequestRejects =>
            IF attempt < maxRetries
            THEN /\ pc' = "sleep"
                 /\ sleeps' = Append(sleeps, 2^attempt * baseDelay)
                 /\ attempt' = attempt
                 /\ thrown' = NoError
            ELSE /\ attempt = maxRetries
                 /\ pc' = "thrown"
                 /\ thrown' \in TransportErrors
                 /\ thrown' = lastError'
                 /\ sleeps' = sleeps
        /\ pc = "sleep" =>
            /\ pc' = "loop"
            /\ attempt' = attempt + 1
            /\ attempt' <= maxRetries
        /\ (pc = "loop" /\ attempt <= maxRetries) =>
            /\ pc' = "fetch"
            /\ requests' = requests + 1
            /\ attempt' = attempt
      ]_vars

C24_Witness ==
    /\ pc = "thrown"
    /\ caller = "wizard"
    /\ log = <<0, 0, 0, 0>>
    /\ sleeps = <<1000, 2000, 4000>>
    /\ thrown.class = "DOMException"
    /\ thrown.name = "TimeoutError"

FailedCall == pc \in {"thrown", "done"} /\ Failed

---------------------------------------------------------------------------
(* Properties of two interleaved calls *)

\* A call run on its own against the answers of its script, from attempt a
\* with n requests made: the number of requests and how the call ends.
RECURSIVE RunAlone(_, _, _, _, _)
RunAlone(max, script, a, n, last) ==
    IF ~(a <= max)
    THEN [ requests |-> n, pc |-> "thrown", error |-> FinalError(last) ]
    ELSE LET o == script[n + 1]
             e == IF o.kind = "reject" THEN o.error
                  ELSE NewError(FailureMessage(o.resp, ErrorData(o.resp)))
             d == IF o.kind = "reject" THEN "throw" ELSE TryDecisionOf(max, a, o.resp)
         IN  IF d = "return"
             THEN [ requests |-> n + 1, pc |-> "returned", error |-> NoError ]
             ELSE IF d = "sleep" THEN RunAlone(max, script, a + 1, n + 1, last)
             ELSE IF CatchDecisionOf(max, a, e) = "break"
             THEN [ requests |-> n + 1, pc |-> "thrown", error |-> FinalError(e) ]
             ELSE RunAlone(max, script, a + 1, n + 1, e)

PairEnded(c) == pCalls[c].pc \in { "returned", "thrown" }

\* C25: in each of two interleaved calls at most one request is in flight,
\* a request is issued only when every earlier request of the same call has
\* completed and no backoff timer of the call is pending, and a call ends
\* with the number of requests and the outcome it has when run alone.
C25_CallsIndependent ==
    /\ [](\A c \in PairIds :
            /\ pCalls[c].inFlight <= 1
            /\ PairEnded(c) =>
                  LET alone == RunAlone(pCalls[c].maxRetries, pCalls[c].script, 0, 0, NoError)
                  IN  /\ pCalls[c].requests = alone.requests
                      /\ pCalls[c].pc = alone.pc
                      /\ pCalls[c].error = alone.error)
    /\ [][\A c \in PairIds :
            pCalls'[c].requests # pCalls[c].requests =>
                /\ pCalls'[c].requests = pCalls[c].requests + 1
                /\ pCalls[c].inFlight = 0
                /\ pCalls[c].timers = 0
                /\ pCalls[c].completed = pCalls[c].requests
                /\ pLocals[c].attempt = pCalls[c].requests]_vars

\* Call 2 has failed after two requests while call 1 is in the backoff sleep
\* after its first.
C25_Witness ==
    /\ pCalls[1].pc = "sleep" /\ pCalls[1].requests = 1 /\ pCalls[1].timers = 1
    /\ pCalls[2].pc = "thrown" /\ pCalls[2].requests = 2


---------------------------------------------------------------------------
(* Properties of the entries of ServiceHealthIndicator *)

EntryNames(entries) == { entries[i].name : i \in 1..Len(entries) }
StatusOf(entries, name) ==
    { entries[i].status : i \in { j \in 1..Len(entries) : entries[j].name = name } }
IndicatorPolls == polls["ServiceHealthIndicator"].updates

\* C26: every entry of ServiceHealthIndicator starts as "checking", after a
\* completed poll cycle every entry is "healthy" or "unhealthy", and from
\* one state to the next no entry is removed and no entry that has left
\* "checking" returns to it.
C26_EntriesKeptAndSettled ==
    /\ [](/\ services # <<>>
          /\ IndicatorPolls = 0 =>
                \A i \in 1..Len(services) : services[i].status = "checking"
          /\ IndicatorPolls > 0 =>
                \A i \in 1..Len(services) : services[i].status \in { "healthy", "unhealthy" })
    /\ [][/\ EntryNames(services) \subseteq EntryNames(services')
          /\ \A name \in EntryNames(services) :
                "checking" \in StatusOf(services', name) =>
                    StatusOf(services, name) = { "checking" }]_vars

C26_Witness ==
    /\ polls["ServiceHealthIndicator"].phase = "mounted"
    /\ IndicatorPolls = 2
    /\ services = << [ name |-> "Web Scraping", status |-> "healthy" ],
                     [ name |-> "AI Service", status |-> "unhealthy" ],
                     [ name |-> "Main API", status |-> "healthy" ] >>


\* C29: in ServiceHealthIndicator and useServiceHealth no state update
\* (setServices, setIsHealthy, setLastChecked) is made once the cleanup of the
\* effect has run, also when a check was in flight at teardown.
C29_NoStateUpdateAfterTeardown ==
    \A k \in DOMAIN polls : HasMountedFlag(k) => polls[k].lateUpdates = 0


---------------------------------------------------------------------------
(* Properties of the results context *)

ContextState == <<resultData, scrapedData, editableContent, brandSettings, generatedModules>>

\* C30: after any sequence of the five operations editableContent is null
\* exactly when resultData is null; updateEditableContent applied while no
\* results are set changes nothing; after clearResults the five values are
\* the initial ones.
C30_EditableMatchesResults ==
    /\ []((editableContent = Null) <=> (resultData = Null))
    /\ [](lastOp = "clearResults" =>
            /\ resultData = Null /\ scrapedData = Null /\ editableContent = Null
            /\ generatedModules = <<>>
            /\ brandSettings = DefaultBrandSettings)
    /\ [][(lastOp' = "updateEditableContent" /\ resultData = Null) =>
            ContextState' = ContextState]_vars

C30_Witness ==
    /\ lastOp = "updateEditableContent"
    /\ resultData = Null
    /\ editableContent = Null
    /\ generatedModules = <<"listing">>
    /\ brandSettings.agentName = <<"Ann">>

===========================================================================
